---------------------------- MODULE Spec2Model ----------------------------
(***************************************************************************)
(* Verification model of the TMKP edge quality-control pipeline            *)
(* (phase1.py, api_functions.py).                                          *)
(*                                                                         *)
(* Strings over which the program matches text are sequences of            *)
(* one-character strings, so lower(), re.escape() and the regular          *)
(* expression \b...\b are computed, not assumed.  Identifiers (CURIEs),    *)
(* classifications and reason strings are only compared for equality and   *)
(* are kept as atomic strings.                                             *)
(***************************************************************************)
EXTENDS Integers, Sequences, FiniteSets, TLC

VARIABLES
    pc,                   \* where the modelled run is: which call is pending or returned
    call,                 \* the method being called and its arguments
    result,               \* the value the last call returned
    normalized_entities,  \* EdgeClassifier.normalized_entities
    synonyms_data,        \* EdgeClassifier.synonyms_data
    edges,                \* EdgeClassifier.edges; for the reviewer, EdgeReviewer.edges
    current_indices,      \* EdgeReviewer.current_indices
    output_files,         \* the rows of good_edges.jsonl, bad_edges.jsonl, ambiguous_edges.jsonl
    effects               \* what the run did to the outside so far, in order: requests sent, rows written

vars == <<pc, call, result, normalized_entities, synonyms_data,
          edges, current_indices, output_files, effects>>

\* The output directory without output files
NoOutputFiles == [good |-> <<>>, bad |-> <<>>, ambiguous |-> <<>>]

-----------------------------------------------------------------------------
(* Bounds of the model *)

MaxTextLen == 3       \* longest supporting text enumerated character by character
MaxCandidates == 2    \* longest candidate list handed to find_synonyms_in_text
MaxResults == 3       \* longest list of lookup results for one synonym
MaxCached == 2        \* longest list of lookup results per synonym when classifying edges
MaxBatch == 2         \* most edges in a batch handed to collect_all_synonyms_from_batch
MaxRetries == 3       \* largest max_retries given to api_request_with_retry
MaxCuries == 4        \* longest identifier list given to the batch functions
MaxBatchSize == 3     \* largest batch_size given to the batch functions

-----------------------------------------------------------------------------
(* Python values *)

\* Python None (also: a key that dict.get() does not find).  Characters are
\* one-letter strings, so no character sequence equals this value.
None == <<"None">>

\* The empty dict / a dict with no entry, as a function with empty domain.
EmptyDict == <<>>

\* `not x` for a str or None
Falsy(x) == x = None \/ x = <<>>

\* `not l` for a list (the model hands no None where the code expects a list)
FalsyList(l) == Len(l) = 0

\* d.get(k, default)
DictGet(d, k, default) == IF k \in DOMAIN d THEN d[k] ELSE default

-----------------------------------------------------------------------------
(* Characters: str.lower() and the regular expression class \w *)

LowerCaseLetters ==
    {"a", "b", "c", "d", "e", "f", "g", "i", "k", "l", "m", "n", "o", "r", "s", "u", "z"}
UpperCaseLetters == {"A", "B", "D", "F", "G", "M", "N", "O", "S"}
Whitespace == {" "}
Punctuation == {"+", "(", ")"}

\* str.lower() on one character
LowerChar(c) ==
    CASE c = "A" -> "a"
      [] c = "B" -> "b"
      [] c = "D" -> "d"
      [] c = "F" -> "f"
      [] c = "G" -> "g"
      [] c = "M" -> "m"
      [] c = "N" -> "n"
      [] c = "O" -> "o"
      [] c = "S" -> "s"
      [] OTHER -> c

\* str.lower()
Lower(s) == [i \in 1..Len(s) |-> LowerChar(s[i])]

\* needle in haystack
Contains(haystack, needle) ==
    \E i \in 1..(Len(haystack) - Len(needle) + 1) :
        SubSeq(haystack, i, i + Len(needle) - 1) = needle

\* \w of Python's re on str patterns: letters, digits, underscore
IsWordChar(c) == c \in LowerCaseLetters \cup UpperCaseLetters

\* \b at offset p (0 = before the first character) of string t: the boundary
\* between a \w and a \W character, or between \w and either end of t.
WordBoundaryNever(t, p) == TRUE
WordBoundary(t, p) ==
    LET before == p >= 1 /\ IsWordChar(t[p])
        after == p < Len(t) /\ IsWordChar(t[p + 1])
    IN  before # after

\* re.escape(literal) followed at offset p of t, character by character
RECURSIVE LiteralAt(_, _, _, _)
LiteralAt(literal, t, p, k) ==
    IF k > Len(literal) THEN TRUE
    ELSE IF p + k > Len(t) THEN FALSE
    ELSE IF t[p + k] # literal[k] THEN FALSE
    ELSE LiteralAt(literal, t, p, k + 1)

\* re.search(r'\b' + re.escape(literal) + r'\b', t): try every offset from the left
RECURSIVE ReSearchFrom(_, _, _)
ReSearchFrom(literal, t, p) ==
    IF p > Len(t) THEN FALSE
    ELSE IF /\ WordBoundary(t, p)
            /\ LiteralAt(literal, t, p, 1)
            /\ WordBoundary(t, p + Len(literal))
         THEN TRUE
    ELSE ReSearchFrom(literal, t, p + 1)

ReSearchWord(literal, t) == ReSearchFrom(literal, t, 0)

-----------------------------------------------------------------------------
(* EdgeClassifier.find_synonyms_in_text *)

RECURSIVE FindLoop(_, _, _, _)
FindLoop(text_lower, synonyms, k, found_synonyms) ==
    IF k > Len(synonyms) THEN found_synonyms
    ELSE LET synonym == synonyms[k] IN
         IF Falsy(synonym) THEN FindLoop(text_lower, synonyms, k + 1, found_synonyms)
         ELSE IF ReSearchWord(Lower(synonym), text_lower)
              THEN FindLoop(text_lower, synonyms, k + 1, Append(found_synonyms, synonym))
         ELSE FindLoop(text_lower, synonyms, k + 1, found_synonyms)

find_synonyms_in_text(text, synonyms) ==
    IF Falsy(text) \/ FalsyList(synonyms) THEN <<>>
    ELSE FindLoop(Lower(text), synonyms, 1, <<>>)

-----------------------------------------------------------------------------
(* Lookup results and dictionaries keyed by synonym strings *)

\* d[k] = v
DictSet(d, k, v) == [x \in DOMAIN d \cup {k} |-> IF x = k THEN v ELSE d[x]]

\* x in l, for a Python list l
InList(x, l) == \E i \in 1..Len(l) : l[i] = x

\* l[:n]
Take(l, n) == IF Len(l) <= n THEN l ELSE SubSeq(l, 1, n)

\* A lookup result is the record [curie, label, synonyms] of the fields the
\* classifier reads; label = None stands for a result without a 'label' key.
ResultLabel(r, default) == IF r.label = None THEN default ELSE r.label

\* The placeholder 'N/A' of _format_lookup_result
NotAvailable == <<"N", "/", "A">>

\* Number of synonyms _format_lookup_result keeps
SynonymStorageLimit == 10

\* EdgeClassifier._format_lookup_result
format_lookup_result(r) ==
    [curie |-> r.curie,
     label |-> ResultLabel(r, NotAvailable),
     synonyms |-> Take(r.synonyms, SynonymStorageLimit)]

\* api_functions.get_exact_matches
get_exact_matches(lookup_results) ==
    IF FalsyList(lookup_results) THEN <<>> ELSE lookup_results

\* The matches whose label equals the synonym, case-insensitively
\* (the inner loop of both ambiguity checks)
RECURSIVE PreferredLoop(_, _, _, _, _)
PreferredLoop(synonym, exact_matches, label_default, k, preferred_matches) ==
    IF k > Len(exact_matches) THEN preferred_matches
    ELSE LET match == exact_matches[k]
             preferred_label == Lower(ResultLabel(match, label_default))
         IN  IF Lower(synonym) = preferred_label
             THEN PreferredLoop(synonym, exact_matches, label_default, k + 1,
                                Append(preferred_matches, match))
             ELSE PreferredLoop(synonym, exact_matches, label_default, k + 1,
                                preferred_matches)

\* The enhanced ambiguity logic applied to the exact matches of one synonym:
\* the new (is_ambiguous, lookup_data) pair
PreferNameLogic(acc, synonym, exact_matches, label_default) ==
    LET stored == DictSet(acc.lookup_data, synonym, exact_matches) IN
    IF Len(exact_matches) > 1
    THEN LET preferred_matches ==
                 PreferredLoop(synonym, exact_matches, label_default, 1, <<>>)
         IN  IF Len(preferred_matches) = 1
             THEN [is_ambiguous |-> acc.is_ambiguous,
                   lookup_data |-> DictSet(stored, synonym, preferred_matches)]
             ELSE [is_ambiguous |-> TRUE, lookup_data |-> stored]
    ELSE [is_ambiguous |-> acc.is_ambiguous, lookup_data |-> stored]

-----------------------------------------------------------------------------
(* EdgeClassifier.check_ambiguous_matches_with_cache *)

RECURSIVE CacheLoop(_, _, _, _)
CacheLoop(synonyms, lookup_cache, k, acc) ==
    IF k > Len(synonyms) THEN acc
    ELSE LET synonym == synonyms[k]
             lookup_results == DictGet(lookup_cache, synonym, <<>>)
         IN  IF FalsyList(lookup_results)
             THEN CacheLoop(synonyms, lookup_cache, k + 1, acc)
             ELSE CacheLoop(synonyms, lookup_cache, k + 1,
                            PreferNameLogic(acc, synonym,
                                            get_exact_matches(lookup_results), <<>>))

check_ambiguous_matches_with_cache(synonyms, lookup_cache) ==
    CacheLoop(synonyms, lookup_cache, 1,
              [is_ambiguous |-> FALSE, lookup_data |-> EmptyDict])

-----------------------------------------------------------------------------
(* EdgeClassifier.check_ambiguous_matches *)

\* A response of lookup_names: the list of results, or an APIException
Ok(results) == [status |-> "ok", results |-> results]
ApiError == [status |-> "APIException", results |-> <<>>]

\* The results that have the synonym as a separate element of their synonym
\* list (exact string match), formatted for storage
RECURSIVE ExactLoop(_, _, _, _)
ExactLoop(synonym, lookup_results, k, exact_matches) ==
    IF k > Len(lookup_results) THEN exact_matches
    ELSE LET r == lookup_results[k] IN
         IF InList(synonym, r.synonyms)
         THEN ExactLoop(synonym, lookup_results, k + 1,
                        Append(exact_matches, format_lookup_result(r)))
         ELSE ExactLoop(synonym, lookup_results, k + 1, exact_matches)

\* lookup_names_responses[synonym] is what lookup_names answers for the query
RECURSIVE LookupLoop(_, _, _, _)
LookupLoop(found_synonyms, lookup_names_responses, k, acc) ==
    IF k > Len(found_synonyms) THEN acc
    ELSE LET synonym == found_synonyms[k]
             response == lookup_names_responses[synonym]
         IN  IF response.status = "APIException"
             THEN LookupLoop(found_synonyms, lookup_names_responses, k + 1,
                             [is_ambiguous |-> acc.is_ambiguous,
                              lookup_data |-> DictSet(acc.lookup_data, synonym, <<>>)])
             ELSE LookupLoop(found_synonyms, lookup_names_responses, k + 1,
                             PreferNameLogic(acc, synonym,
                                             ExactLoop(synonym, response.results, 1, <<>>),
                                             <<>>))

check_ambiguous_matches(found_synonyms, lookup_names_responses) ==
    LookupLoop(found_synonyms, lookup_names_responses, 1,
               [is_ambiguous |-> FALSE, lookup_data |-> EmptyDict])

-----------------------------------------------------------------------------
(* Edges, normalization results and synonym sets *)

\* The sentinel 'NA' of an edge without supporting text
NA == <<"N", "A">>

\* The key 'names' of a synonym set
NamesKey == <<"n", "a", "m", "e", "s">>

\* A normalization result is [null, identifier, type]: null is JSON null, and
\* identifier stands for entry['id']['identifier'] ("" when it is missing).
NullEntity == [null |-> TRUE, identifier |-> "", type |-> <<>>]
Normalized(identifier, type) == [null |-> FALSE, identifier |-> identifier, type |-> type]

\* The entity types of the inputs
BiolinkPrefix == <<"b", "i", "o", "l", "i", "n", "k", ":">>
BiolinkGene == BiolinkPrefix \o <<"G", "e", "n", "e">>
BiolinkSmallMolecule ==
    BiolinkPrefix \o <<"S", "m", "a", "l", "l", "M", "o", "l", "e", "c", "u", "l", "e">>
BiolinkDisease == BiolinkPrefix \o <<"D", "i", "s", "e", "a", "s", "e">>

\* self.normalized_entities.get(curie)
NormalizedGet(mapping, curie) == DictGet(mapping, curie, NullEntity)

\* A synonym set is the dict the synonym service returns for one identifier:
\* keys lists its keys in iteration order, names is its value under 'names'.
EmptySynonymSet == [keys |-> <<>>, names |-> <<>>]
NamesOnly(names) == [keys |-> <<NamesKey>>, names |-> names]

\* synonym_set.get('names', []) if synonym_set else []
SynonymNames(synonym_set) ==
    IF InList(NamesKey, synonym_set.keys) THEN synonym_set.names ELSE <<>>

\* Reasons and classifications
NoSupportingText == "No supporting text available"
MissingSynonyms == "Missing synonyms for subject or object"
NeitherFound == "Neither subject nor object found in text"
SubjectNotFound == "Subject not found in text"
ObjectNotFound == "Object not found in text"

\* not sentences or sentences == 'NA'
NoText(sentences) == Falsy(sentences) \/ sentences = NA

-----------------------------------------------------------------------------
(* The type and the taxon filter of the lookups of classify_edge *)

\* s.replace(old, new) for a non-empty old
RECURSIVE Replace(_, _, _)
Replace(s, old, new) ==
    IF Len(s) < Len(old) THEN s
    ELSE IF SubSeq(s, 1, Len(old)) = old
    THEN new \o Replace(SubSeq(s, Len(old) + 1, Len(s)), old, new)
    ELSE <<s[1]>> \o Replace(Tail(s), old, new)

\* types[0].replace('biolink:', '') if types else None
BiolinkType(norm) ==
    IF FalsyList(norm.type) THEN None ELSE Replace(norm.type[1], BiolinkPrefix, <<>>)

\* The taxon filter of a request: the list of taxa it is restricted to, empty
\* when the request carries none
HumanTaxon == "NCBITaxon:9606"
NoTaxa == <<>>

\* only_taxa of the lookup_names call of check_ambiguous_matches
OnlyTaxa(expected_biolink_type) ==
    IF ~Falsy(expected_biolink_type) /\ Contains(Lower(expected_biolink_type), <<"g", "e", "n", "e">>)
    THEN <<HumanTaxon>>
    ELSE NoTaxa

-----------------------------------------------------------------------------
(* EdgeClassifier.classify_edge *)

classify_edge(edge, lookup_names_responses) ==
    LET subject_id == edge.subject
        object_id == edge.object
        sentences == edge.sentences
        debug_info0 == [subject_synonyms_found |-> <<>>, object_synonyms_found |-> <<>>,
                        subject_all_synonyms |-> <<>>, object_all_synonyms |-> <<>>]
        subject_norm == NormalizedGet(normalized_entities, subject_id)
        object_norm == NormalizedGet(normalized_entities, object_id)
        subject_preferred == subject_norm.identifier
        object_preferred == object_norm.identifier
        subject_synonyms == SynonymNames(DictGet(synonyms_data, subject_preferred, EmptySynonymSet))
        object_synonyms == SynonymNames(DictGet(synonyms_data, object_preferred, EmptySynonymSet))
        subject_found == find_synonyms_in_text(sentences, subject_synonyms)
        object_found == find_synonyms_in_text(sentences, object_synonyms)
        debug_info1 == [subject_synonyms_found |-> subject_found,
                        object_synonyms_found |-> object_found,
                        subject_all_synonyms |-> subject_synonyms,
                        object_all_synonyms |-> object_synonyms]
        subject_check == check_ambiguous_matches(subject_found, lookup_names_responses.subject)
        object_check == check_ambiguous_matches(object_found, lookup_names_responses.object)
        debug_info2 == debug_info1 @@
                       [subject_ambiguous |-> subject_check.is_ambiguous,
                        object_ambiguous |-> object_check.is_ambiguous,
                        subject_lookup_data |-> subject_check.lookup_data,
                        object_lookup_data |-> object_check.lookup_data]
    IN  IF NoText(sentences)
        THEN [classification |-> "bad", debug_info |-> debug_info0]
        ELSE IF subject_norm.null \/ object_norm.null
        THEN [classification |-> "bad", debug_info |-> debug_info0]
        ELSE IF subject_preferred = "" \/ object_preferred = ""
        THEN [classification |-> "bad", debug_info |-> debug_info0]
        ELSE IF FalsyList(subject_found) /\ FalsyList(object_found)
        THEN [classification |-> "bad", debug_info |-> debug_info1]
        ELSE IF FalsyList(subject_found) \/ FalsyList(object_found)
        THEN [classification |-> "bad", debug_info |-> debug_info1]
        ELSE IF subject_check.is_ambiguous \/ object_check.is_ambiguous
        THEN [classification |-> "ambiguous", debug_info |-> debug_info2]
        ELSE [classification |-> "good", debug_info |-> debug_info2]

-----------------------------------------------------------------------------
(* EdgeClassifier._check_entity_in_text_with_cache and classify_edge_with_cache *)

\* Returns the pair [found, debug_info]: the boolean the method returns and the
\* debug_info dict it updates in place.
check_entity_in_text_with_cache(text, synonyms, lookup_cache, debug_info, entity_type) ==
    LET found_synonyms == find_synonyms_in_text(text, synonyms)
        checked == check_ambiguous_matches_with_cache(found_synonyms, lookup_cache)
    IN  IF FalsyList(found_synonyms)
        THEN [found |-> FALSE, debug_info |-> debug_info]
        ELSE [found |-> ~checked.is_ambiguous,
              debug_info |->
                  IF entity_type = "subject"
                  THEN [subject_synonyms_found |-> found_synonyms,
                        subject_ambiguous |-> checked.is_ambiguous] @@ debug_info
                  ELSE [object_synonyms_found |-> found_synonyms,
                        object_ambiguous |-> checked.is_ambiguous] @@ debug_info]

classify_edge_with_cache(edge, lookup_cache) ==
    LET debug_info0 == [subject_curie |-> edge.subject, object_curie |-> edge.object,
                        edge_text |-> IF edge.sentences = None THEN NA ELSE edge.sentences]
        \* iterating a dict yields its keys
        subject_synonyms == DictGet(synonyms_data, edge.subject, EmptySynonymSet).keys
        object_synonyms == DictGet(synonyms_data, edge.object, EmptySynonymSet).keys
        subject_checked == check_entity_in_text_with_cache(
                               edge.sentences, subject_synonyms, lookup_cache,
                               debug_info0, "subject")
        object_checked == check_entity_in_text_with_cache(
                              edge.sentences, object_synonyms, lookup_cache,
                              subject_checked.debug_info, "object")
        subject_found == subject_checked.found
        object_found == object_checked.found
        debug_info == object_checked.debug_info
    IN  IF NoText(edge.sentences)
        THEN [classification |-> "bad",
              debug_info |-> [reason |-> NoSupportingText] @@ debug_info0]
        ELSE IF FalsyList(subject_synonyms) \/ FalsyList(object_synonyms)
        THEN [classification |-> "bad",
              debug_info |-> [reason |-> MissingSynonyms] @@ debug_info0]
        ELSE IF subject_found /\ object_found
        THEN [classification |-> "good", debug_info |-> debug_info]
        ELSE IF ~subject_found /\ ~object_found
        THEN [classification |-> "bad",
              debug_info |-> [reason |-> NeitherFound] @@ debug_info]
        ELSE IF ~subject_found
        THEN [classification |-> "bad",
              debug_info |-> [reason |-> SubjectNotFound] @@ debug_info]
        ELSE [classification |-> "bad",
              debug_info |-> [reason |-> ObjectNotFound] @@ debug_info]

-----------------------------------------------------------------------------
(* EdgeClassifier.collect_all_synonyms_from_batch *)

\* The synonyms of one edge that occur in its text: the entries of
\* self.synonyms_data under the edge's subject and object CURIEs are poured
\* into a set (set.update of a dict adds its keys)
EdgeSynonymsInText(edge) ==
    IF NoText(edge.sentences) THEN {}
    ELSE LET Entry(curie) == DictGet(synonyms_data, curie, EmptySynonymSet).keys
             synonyms == UNION { { Entry(curie)[k] : k \in 1..Len(Entry(curie)) } :
                                   curie \in {edge.subject, edge.object} }
         IN  { synonym \in synonyms :
                 ~FalsyList(find_synonyms_in_text(edge.sentences, <<synonym>>)) }

\* A collection that looks at the first edge of the batch only
collect_synonyms_of_first_edge(batch) ==
    LET found == UNION { EdgeSynonymsInText(batch[i]) : i \in 1..Len(batch) \cap {1} }
    IN  IF found = {} THEN EmptyDict ELSE ("default" :> found)

\* Returns synonym_groups: the key 'default' exists once a synonym was added
collect_all_synonyms_from_batch(batch) ==
    LET found == UNION { EdgeSynonymsInText(batch[i]) : i \in 1..Len(batch) }
    IN  IF found = {} THEN EmptyDict ELSE ("default" :> found)

-----------------------------------------------------------------------------
(* Inputs of the text matcher *)

\* One letter in both cases, a second letter, whitespace and punctuation
MatchAlphabet == {"a", "A", "b", " ", "+"}

RECURSIVE StringsUpTo(_, _)
StringsUpTo(alphabet, n) ==
    IF n = 0 THEN {<<>>}
    ELSE LET shorter == StringsUpTo(alphabet, n - 1)
         IN  shorter \cup {Append(s, c) : s \in shorter, c \in alphabet}

MatchTexts == StringsUpTo(MatchAlphabet, MaxTextLen) \cup {None}

\* Candidate strings: null, empty, words in either case, a word inside a longer
\* word, a phrase, and candidates with punctuation at an end or alone
MatchVocabulary ==
    { None, <<>>, <<"a">>, <<"A">>, <<"b">>, <<"a", "b">>, <<"a", " ", "b">>,
      <<"a", "+">>, <<"+">>, <<" ">> }

RECURSIVE ListsUpTo(_, _)
ListsUpTo(elements, n) ==
    IF n = 0 THEN {<<>>}
    ELSE LET shorter == ListsUpTo(elements, n - 1)
         IN  shorter \cup {Append(l, e) : l \in shorter, e \in elements}

MatchCandidateLists == ListsUpTo(MatchVocabulary, MaxCandidates)

-----------------------------------------------------------------------------
(* Specification of the text matcher: one call of find_synonyms_in_text on   *)
(* every text and candidate list within the bounds                           *)

InitMatch ==
    /\ pc = "called"
    /\ \E text \in MatchTexts, synonyms \in MatchCandidateLists :
           call = [op |-> "find_synonyms_in_text", text |-> text, synonyms |-> synonyms]
    /\ result = <<>>
    /\ normalized_entities = EmptyDict
    /\ synonyms_data = EmptyDict
    /\ edges = <<>>
    /\ output_files = NoOutputFiles
    /\ effects = <<>>
    /\ current_indices = EmptyDict

FindSynonymsInText ==
    /\ pc = "called"
    /\ call.op = "find_synonyms_in_text"
    /\ result' = find_synonyms_in_text(call.text, call.synonyms)
    /\ pc' = "returned"
    /\ UNCHANGED <<call, normalized_entities, synonyms_data,
                   edges, output_files, effects>>
    /\ UNCHANGED current_indices

NextMatch == FindSynonymsInText

SpecMatch == InitMatch /\ [][NextMatch]_vars

-----------------------------------------------------------------------------
(* Inputs of the disambiguation: a synonym and the lookup results for it *)

foo == <<"f", "o", "o">>
Foo == <<"F", "o", "o">>
FOO == <<"F", "O", "O">>
bar == <<"b", "a", "r">>

DisambigSynonyms == {foo, Foo}

\* Lookup results for the query foo: labelled with it, labelled with it in
\* another case and carrying it as a synonym, carrying it only as a synonym,
\* carrying it nowhere (a fuzzy hit of the search service), and without label
LookupResults ==
    { [curie |-> "X", label |-> foo, synonyms |-> <<>>],
      [curie |-> "Y", label |-> FOO, synonyms |-> <<foo, bar>>],
      [curie |-> "Z", label |-> bar, synonyms |-> <<foo>>],
      [curie |-> "W", label |-> bar, synonyms |-> <<>>],
      [curie |-> "V", label |-> None, synonyms |-> <<Foo>>] }

LookupResultLists == ListsUpTo(LookupResults, MaxResults)

-----------------------------------------------------------------------------
(* Specification of the disambiguation: one call of either ambiguity check   *)
(* for one found synonym, on every list of lookup results within the bounds  *)

InitDisambig ==
    /\ pc = "called"
    /\ \E synonym \in DisambigSynonyms :
           \/ \E results \in LookupResultLists :
                  call = [op |-> "check_ambiguous_matches_with_cache",
                          synonyms |-> <<synonym>>,
                          lookup_cache |-> DictSet(EmptyDict, synonym, results)]
           \/ call = [op |-> "check_ambiguous_matches_with_cache",
                      synonyms |-> <<synonym>>,
                      lookup_cache |-> EmptyDict]
           \/ \E response \in {Ok(results) : results \in LookupResultLists} \cup {ApiError} :
                  call = [op |-> "check_ambiguous_matches",
                          found_synonyms |-> <<synonym>>,
                          lookup_names |-> DictSet(EmptyDict, synonym, response)]
    /\ result = <<>>
    /\ normalized_entities = EmptyDict
    /\ synonyms_data = EmptyDict
    /\ edges = <<>>
    /\ output_files = NoOutputFiles
    /\ effects = <<>>
    /\ current_indices = EmptyDict

CheckAmbiguousMatchesWithCache ==
    /\ pc = "called"
    /\ call.op = "check_ambiguous_matches_with_cache"
    /\ result' = check_ambiguous_matches_with_cache(call.synonyms, call.lookup_cache)
    /\ pc' = "returned"
    /\ UNCHANGED <<call, normalized_entities, synonyms_data,
                   edges, output_files, effects>>
    /\ UNCHANGED current_indices

CheckAmbiguousMatches ==
    /\ pc = "called"
    /\ call.op = "check_ambiguous_matches"
    /\ result' = check_ambiguous_matches(call.found_synonyms, call.lookup_names)
    /\ pc' = "returned"
    /\ UNCHANGED <<call, normalized_entities, synonyms_data,
                   edges, output_files, effects>>
    /\ UNCHANGED current_indices

NextDisambig == CheckAmbiguousMatchesWithCache \/ CheckAmbiguousMatches

SpecDisambig == InitDisambig /\ [][NextDisambig]_vars

-----------------------------------------------------------------------------
(* Inputs of the edge classifier *)

\* The edge under classification links subject A to object B.  A normalizes to
\* itself or to P, B to itself; the subject's names are foo (and Foo), the
\* object's name is bar.
Words(w1, w2) == w1 \o <<" ">> \o w2

ClassifyTexts ==
    { None, <<>>, <<" ">>, NA,
      Words(foo, bar), Words(FOO, bar), foo, bar,
      NamesKey, Words(NamesKey, Words(foo, bar)) }

ClassifyEdges ==
    { [subject |-> "A", object |-> "B", sentences |-> text] : text \in ClassifyTexts }

\* What the normalizer may have answered: a CURIE absent from the response,
\* mapped to null, to itself, or to another preferred identifier
NormalizationMaps ==
    { a @@ b :
        a \in { EmptyDict,
                "A" :> NullEntity,
                "A" :> Normalized("A", <<BiolinkGene>>),
                "A" :> Normalized("P", <<BiolinkGene>>) },
        b \in { EmptyDict,
                "B" :> Normalized("B", <<BiolinkSmallMolecule>>) } }

\* What the synonym service may have answered for A, P and B: no entry, an
\* empty object, an empty name list, or names (the word names is itself a
\* possible name)
SynonymMaps ==
    { a @@ p @@ b :
        a \in { EmptyDict, "A" :> EmptySynonymSet, "A" :> NamesOnly(<<>>),
                "A" :> NamesOnly(<<foo>>), "A" :> NamesOnly(<<NamesKey>>) },
        p \in { EmptyDict, "P" :> NamesOnly(<<Foo, foo>>) },
        b \in { EmptyDict, "B" :> NamesOnly(<<>>), "B" :> NamesOnly(<<bar>>),
                "B" :> NamesOnly(<<NamesKey>>) } }

\* Lookup results for the subject's name foo: the expected entity A, another
\* entity labelled FOO, one carrying foo as a synonym, and a fuzzy hit
SubjectResults ==
    { [curie |-> "A", label |-> foo, synonyms |-> <<foo>>],
      [curie |-> "X", label |-> FOO, synonyms |-> <<foo>>],
      [curie |-> "Z", label |-> bar, synonyms |-> <<foo>>],
      [curie |-> "W", label |-> bar, synonyms |-> <<>>] }

SubjectResultLists == ListsUpTo(SubjectResults, MaxCached)

\* The object's name bar resolves to B alone
ObjectResultList == << [curie |-> "B", label |-> bar, synonyms |-> <<bar>>] >>

\* The word names is the label of two entities
NamesResultList ==
    << [curie |-> "N1", label |-> NamesKey, synonyms |-> <<>>],
       [curie |-> "N2", label |-> NamesKey, synonyms |-> <<>>] >>

\* Lookup caches of a batch: results for foo, for bar and for the word names
LookupCaches ==
    { f @@ b @@ n :
        f \in { EmptyDict } \cup { foo :> results : results \in SubjectResultLists },
        b \in { EmptyDict, bar :> ObjectResultList },
        n \in { EmptyDict, NamesKey :> NamesResultList } }

\* What lookup_names answers during one classify_edge call, per role and query
LookupNamesResponses ==
    { [subject |-> (foo :> f) @@ (Foo :> Ok(<<>>)) @@ (NamesKey :> Ok(NamesResultList)),
       object |-> (bar :> b) @@ (NamesKey :> Ok(NamesResultList))] :
        f \in { Ok(results) : results \in SubjectResultLists } \cup { ApiError },
        b \in { Ok(ObjectResultList), ApiError } }

-----------------------------------------------------------------------------
(* Specification of the edge classifier: the classifier object is           *)
(* constructed, receives the normalization results and the synonym sets,    *)
(* and classifies one edge by either method                                 *)

InitClassify ==
    /\ pc = "constructed"
    /\ call = [op |-> "__init__"]
    /\ result = <<>>
    /\ normalized_entities = EmptyDict
    /\ synonyms_data = EmptyDict
    /\ edges = <<>>
    /\ output_files = NoOutputFiles
    /\ effects = <<>>
    /\ current_indices = EmptyDict

\* normalize_entities: self.normalized_entities = batch_get_normalized_nodes(...)
NormalizeEntities ==
    /\ pc = "constructed"
    /\ \E response \in NormalizationMaps : normalized_entities' = response
    /\ pc' = "normalized"
    /\ call' = [op |-> "normalize_entities"]
    /\ UNCHANGED <<result, synonyms_data,
                   edges, output_files, effects>>
    /\ UNCHANGED current_indices

\* get_all_synonyms: self.synonyms_data = batch_get_synonyms(...)
GetAllSynonyms ==
    /\ pc = "normalized"
    /\ \E response \in SynonymMaps : synonyms_data' = response
    /\ pc' = "ready"
    /\ call' = [op |-> "get_all_synonyms"]
    /\ UNCHANGED <<result, normalized_entities,
                   edges, output_files, effects>>
    /\ UNCHANGED current_indices

ClassifyEdge ==
    /\ pc = "ready"
    /\ \E edge \in ClassifyEdges, responses \in LookupNamesResponses :
           /\ call' = [op |-> "classify_edge", edge |-> edge, lookup_names |-> responses]
           /\ result' = classify_edge(edge, responses)
    /\ pc' = "returned"
    /\ UNCHANGED <<normalized_entities, synonyms_data,
                   edges, output_files, effects>>
    /\ UNCHANGED current_indices

ClassifyEdgeWithCache ==
    /\ pc = "ready"
    /\ \E edge \in ClassifyEdges, lookup_cache \in LookupCaches :
           /\ call' = [op |-> "classify_edge_with_cache", edge |-> edge,
                       lookup_cache |-> lookup_cache]
           /\ result' = classify_edge_with_cache(edge, lookup_cache)
    /\ pc' = "returned"
    /\ UNCHANGED <<normalized_entities, synonyms_data,
                   edges, output_files, effects>>
    /\ UNCHANGED current_indices

CollectAllSynonymsFromBatch ==
    /\ pc = "ready"
    /\ \E batch \in ListsUpTo(ClassifyEdges, MaxBatch) :
           /\ call' = [op |-> "collect_all_synonyms_from_batch", edges |-> batch]
           /\ result' = collect_all_synonyms_from_batch(batch)
    /\ pc' = "returned"
    /\ UNCHANGED <<normalized_entities, synonyms_data,
                   edges, output_files, effects>>
    /\ UNCHANGED current_indices

NextClassify ==
    \/ NormalizeEntities
    \/ GetAllSynonyms
    \/ ClassifyEdge
    \/ ClassifyEdgeWithCache
    \/ CollectAllSynonymsFromBatch

SpecClassify == InitClassify /\ [][NextClassify]_vars

-----------------------------------------------------------------------------
(* Properties of the text matcher (SpecMatch) *)

\* Candidate c occurs in text t at index i, letters compared case-insensitively
OccursAt(c, t, i) ==
    /\ i + Len(c) - 1 <= Len(t)
    /\ \A k \in 1..Len(c) : LowerChar(t[i + k - 1]) = LowerChar(c[k])

\* The occurrence of c at index i of t is a whole word: on each side a word
\* character of the occurrence meets a non-word character or an end of the text
\* (or the reverse), so the occurrence is not cut out of a longer word.
WholeWordAt(c, t, i) ==
    LET wordBefore == i > 1 /\ IsWordChar(t[i - 1])
        wordAfter == i + Len(c) <= Len(t) /\ IsWordChar(t[i + Len(c)])
    IN  /\ OccursAt(c, t, i)
        /\ wordBefore # IsWordChar(c[1])
        /\ wordAfter # IsWordChar(c[Len(c)])

OccursAsWholeWord(c, t) == \E i \in 1..Len(t) : WholeWordAt(c, t, i)

IsMatchingCandidate(c) ==
    /\ c # None
    /\ c # <<>>
    /\ OccursAsWholeWord(c, call.text)

MatcherReturned == pc = "returned" /\ call.op = "find_synonyms_in_text"

-----------------------------------------------------------------------------
(* Properties of the disambiguation (SpecDisambig) *)

DisambigReturned ==
    /\ pc = "returned"
    /\ call.op \in {"check_ambiguous_matches_with_cache", "check_ambiguous_matches"}

\* The synonym being disambiguated
DisambigSynonym ==
    IF call.op = "check_ambiguous_matches_with_cache"
    THEN call.synonyms[1] ELSE call.found_synonyms[1]

CarriesExactly(r) == \E j \in 1..Len(r.synonyms) : r.synonyms[j] = DisambigSynonym

\* Its candidate list: the cached results (check_ambiguous_matches_with_cache),
\* or the looked-up results that pass the exact-match filter
\* (check_ambiguous_matches)
DisambigCandidates ==
    IF call.op = "check_ambiguous_matches_with_cache"
    THEN DictGet(call.lookup_cache, DisambigSynonym, <<>>)
    ELSE LET response == call.lookup_names[DisambigSynonym]
             kept == SelectSeq(response.results, CarriesExactly)
         IN  [i \in 1..Len(kept) |-> format_lookup_result(kept[i])]

\* P: the candidates whose label equals the synonym case-insensitively
PreferredCandidates ==
    {i \in 1..Len(DisambigCandidates) :
        /\ DisambigCandidates[i].label # None
        /\ Lower(DisambigCandidates[i].label) = Lower(DisambigSynonym)}

\* The candidates that carry the synonym only in their synonym list
RegularCandidates ==
    {i \in 1..Len(DisambigCandidates) :
        /\ i \notin PreferredCandidates
        /\ \E j \in 1..Len(DisambigCandidates[i].synonyms) :
               Lower(DisambigCandidates[i].synonyms[j]) = Lower(DisambigSynonym)}

\* C1: with exactly one candidate the synonym is unambiguous; with two or more,
\* one candidate labelled with the synonym makes it unambiguous and reduces the
\* candidate list to that candidate, several such candidates make it ambiguous,
\* none of them and exactly one candidate carrying it as a synonym makes that
\* candidate win, none of them and several carrying it as a synonym make it
\* ambiguous.
C1_PreferredLabelRule ==
    DisambigReturned =>
        /\ Len(DisambigCandidates) = 1 => ~result.is_ambiguous
        /\ Len(DisambigCandidates) >= 2 =>
            /\ Cardinality(PreferredCandidates) = 1 =>
                /\ ~result.is_ambiguous
                /\ \E i \in PreferredCandidates :
                       result.lookup_data[DisambigSynonym] = <<DisambigCandidates[i]>>
            /\ Cardinality(PreferredCandidates) > 1 => result.is_ambiguous
            /\ (Cardinality(PreferredCandidates) = 0 /\ Cardinality(RegularCandidates) = 1)
                   => ~result.is_ambiguous
            /\ (Cardinality(PreferredCandidates) = 0 /\ Cardinality(RegularCandidates) >= 2)
                   => result.is_ambiguous

-----------------------------------------------------------------------------
(* Properties of the edge classifier (SpecClassify) *)

Roles == {"subject", "object"}

ClassifierReturned ==
    /\ pc = "returned"
    /\ call.op \in {"classify_edge", "classify_edge_with_cache"}

CachedClassifierReturned == pc = "returned" /\ call.op = "classify_edge_with_cache"

\* The supporting text is present: not null, not empty, not the sentinel
UsableText(text) == text # None /\ text # <<>> /\ text # NA

\* The supporting text consists of whitespace only
WhitespaceOnly(text) ==
    /\ text # None
    /\ Len(text) > 0
    /\ \A i \in 1..Len(text) : text[i] \in Whitespace

\* The normalization result expected for a role of an edge
ExpectedEntity(edge, role) == NormalizedGet(normalized_entities, edge[role])

IsNormalized(edge, role) ==
    /\ ~ExpectedEntity(edge, role).null
    /\ ExpectedEntity(edge, role).identifier # ""

\* The names in the synonym set of the role's preferred identifier
ExpectedNames(edge, role) ==
    IF IsNormalized(edge, role)
    THEN SynonymNames(DictGet(synonyms_data, ExpectedEntity(edge, role).identifier,
                              EmptySynonymSet))
    ELSE <<>>

\* Those of the names that occur in the edge's text as a whole word
MatchedNames(edge, role) ==
    LET Occurs(c) == c # None /\ c # <<>> /\ OccursAsWholeWord(c, edge.sentences)
    IN  IF UsableText(edge.sentences)
        THEN SelectSeq(ExpectedNames(edge, role), Occurs)
        ELSE <<>>

\* The candidate list of a found synonym: its cached results
\* (classify_edge_with_cache), or what lookup_names answered for it, reduced to
\* the results that carry it (classify_edge)
CandidatesOf(role, synonym) ==
    IF call.op = "classify_edge_with_cache"
    THEN DictGet(call.lookup_cache, synonym, <<>>)
    ELSE LET Carries(r) == InList(synonym, r.synonyms)
             kept == SelectSeq(call.lookup_names[role][synonym].results, Carries)
         IN  [i \in 1..Len(kept) |-> format_lookup_result(kept[i])]

\* The candidates labelled with the synonym, case-insensitively
LabelledWith(synonym, candidates) ==
    {i \in 1..Len(candidates) :
        /\ candidates[i].label # None
        /\ Lower(candidates[i].label) = Lower(synonym)}

\* The candidates that carry the synonym in their synonym list only
CarryingOnly(synonym, candidates) ==
    {i \in 1..Len(candidates) :
        /\ i \notin LabelledWith(synonym, candidates)
        /\ \E j \in 1..Len(candidates[i].synonyms) :
               Lower(candidates[i].synonyms[j]) = Lower(synonym)}

\* The preferred-label rule: the synonym is ambiguous among its candidates
AmbiguousByRule(synonym, candidates) ==
    /\ Len(candidates) >= 2
    /\ \/ Cardinality(LabelledWith(synonym, candidates)) > 1
       \/ /\ Cardinality(LabelledWith(synonym, candidates)) = 0
          /\ Cardinality(CarryingOnly(synonym, candidates)) >= 2

\* The preferred-label rule: the candidates that win the synonym (at most one)
WinnersByRule(synonym, candidates) ==
    IF Len(candidates) = 1 THEN {1}
    ELSE IF Len(candidates) = 0 THEN {}
    ELSE IF Cardinality(LabelledWith(synonym, candidates)) = 1
         THEN LabelledWith(synonym, candidates)
    ELSE IF /\ Cardinality(LabelledWith(synonym, candidates)) = 0
            /\ Cardinality(CarryingOnly(synonym, candidates)) = 1
         THEN CarryingOnly(synonym, candidates)
    ELSE {}

\* Both roles of the classified edge have a name matched in the text
BothMatched ==
    /\ MatchedNames(call.edge, "subject") # <<>>
    /\ MatchedNames(call.edge, "object") # <<>>

\* A matched name of the role is ambiguous by the preferred-label rule
RoleAmbiguous(role) ==
    \E k \in 1..Len(MatchedNames(call.edge, role)) :
        LET synonym == MatchedNames(call.edge, role)[k]
        IN  AmbiguousByRule(synonym, CandidatesOf(role, synonym))

\* debug_info.get(key, default)
DebugGet(key, default) ==
    IF key \in DOMAIN result.debug_info THEN result.debug_info[key] ELSE default

AmbiguousFlag(role) ==
    IF role = "subject" THEN DebugGet("subject_ambiguous", FALSE)
    ELSE DebugGet("object_ambiguous", FALSE)

FoundReported(role) ==
    IF role = "subject" THEN DebugGet("subject_synonyms_found", <<>>)
    ELSE DebugGet("object_synonyms_found", <<>>)

\* C2: classify_edge_with_cache returns 'ambiguous' and sets the role's
\* ambiguity flag whenever both roles have a synonym matched in the text and a
\* found synonym of the role is ambiguous by the preferred-label rule for its
\* cached candidates.
C2_AmbiguousFromCache ==
    CachedClassifierReturned =>
        \A role \in Roles :
            (BothMatched /\ RoleAmbiguous(role)) =>
                /\ result.classification = "ambiguous"
                /\ AmbiguousFlag(role)

\* Every matched name of both roles resolves to a single winning candidate
AllResolved ==
    \A role \in Roles :
        \A k \in 1..Len(MatchedNames(call.edge, role)) :
            LET synonym == MatchedNames(call.edge, role)[k]
            IN  WinnersByRule(synonym, CandidatesOf(role, synonym)) # {}

\* A winning candidate of the role is another entity than the expected one
WinnerMismatch(role) ==
    \E k \in 1..Len(MatchedNames(call.edge, role)) :
        LET synonym == MatchedNames(call.edge, role)[k]
            candidates == CandidatesOf(role, synonym)
        IN  \E w \in WinnersByRule(synonym, candidates) :
                candidates[w].curie # ExpectedEntity(call.edge, role).identifier

\* C3: when every found synonym resolves to a single winning candidate and a
\* winner's identifier differs from the preferred identifier expected for its
\* role, the edge is classified 'bad' with a reason, never 'good'.
C3_WinnerIdentityChecked ==
    ClassifierReturned =>
        ((BothMatched /\ AllResolved /\ \E role \in Roles : WinnerMismatch(role)) =>
            /\ result.classification = "bad"
            /\ "reason" \in DOMAIN result.debug_info)

\* C4: classify_edge and classify_edge_with_cache return 'good' only if the
\* supporting text is non-empty and not 'NA', both roles have a synonym that
\* matches the text as a whole word, and no found synonym of either role is
\* ambiguous.
C4_GoodOnlyIfFoundAndResolved ==
    (ClassifierReturned /\ result.classification = "good") =>
        /\ UsableText(call.edge.sentences)
        /\ BothMatched
        /\ \A role \in Roles : ~RoleAmbiguous(role)

\* C5: classify_edge_with_cache returns 'bad' with the reason 'No supporting
\* text available' for every edge whose sentences are None, empty,
\* whitespace-only or 'NA'.
C5_NoSupportingText ==
    CachedClassifierReturned =>
        ((~UsableText(call.edge.sentences) \/ WhitespaceOnly(call.edge.sentences)) =>
            /\ result.classification = "bad"
            /\ DebugGet("reason", "") = NoSupportingText)

\* C6: an edge whose subject or object CURIE is absent from the normalization
\* mapping, or mapped to null, is classified 'bad' by classify_edge and by
\* classify_edge_with_cache.
C6_NotNormalizedIsBad ==
    ClassifierReturned =>
        ((\E role \in Roles : ExpectedEntity(call.edge, role).null) =>
            result.classification = "bad")

\* A role of the edge normalizes to another identifier than its CURIE, and
\* that identifier has a non-empty synonym set
NormalizesElsewhere(edge, role) ==
    /\ IsNormalized(edge, role)
    /\ ExpectedEntity(edge, role).identifier # edge[role]
    /\ ExpectedNames(edge, role) # <<>>

\* C7: each role's synonyms are looked up under the normalized preferred
\* identifier of the edge's CURIE: when a CURIE normalizes to a different
\* identifier that has a non-empty synonym set (and the other role has
\* synonyms too), classify_edge and classify_edge_with_cache match the text
\* against that set and do not report 'Missing synonyms', and
\* collect_all_synonyms_from_batch collects the names of that set that occur
\* in the text.
C7_SynonymsUnderPreferredId ==
    /\ ClassifierReturned =>
           ((/\ UsableText(call.edge.sentences)
             /\ \A role \in Roles : ExpectedNames(call.edge, role) # <<>>
             /\ \E role \in Roles : NormalizesElsewhere(call.edge, role)) =>
                 /\ DebugGet("reason", "") # MissingSynonyms
                 /\ \A role \in Roles : FoundReported(role) = MatchedNames(call.edge, role))
    /\ (pc = "returned" /\ call.op = "collect_all_synonyms_from_batch") =>
           \A i \in 1..Len(call.edges) : \A role \in Roles :
               NormalizesElsewhere(call.edges[i], role) =>
                   \A k \in 1..Len(MatchedNames(call.edges[i], role)) :
                       /\ "default" \in DOMAIN result
                       /\ MatchedNames(call.edges[i], role)[k] \in result["default"]

\* C8: classify_edge_with_cache returns 'bad' with the reason 'Missing
\* synonyms ...' whenever the text is present and the synonym set of the
\* subject's or of the object's preferred identifier is missing or empty.
C8_MissingSynonyms ==
    CachedClassifierReturned =>
        ((/\ UsableText(call.edge.sentences)
          /\ ~WhitespaceOnly(call.edge.sentences)
          /\ \A role \in Roles : IsNormalized(call.edge, role)
          /\ \E role \in Roles : ExpectedNames(call.edge, role) = <<>>) =>
              /\ result.classification = "bad"
              /\ DebugGet("reason", "") = MissingSynonyms)

\* C9: when both roles have non-empty synonym lists, an edge whose subject
\* alone is unmatched is 'bad' with the reason 'Subject not found in text', one
\* whose object alone is unmatched is 'bad' with the reason 'Object not found in
\* text', and one with neither role matched is 'bad'.
C9_ReasonNamesMissingRole ==
    ClassifierReturned =>
        ((/\ UsableText(call.edge.sentences)
          /\ \A role \in Roles : ExpectedNames(call.edge, role) # <<>>) =>
            LET subject_matched == MatchedNames(call.edge, "subject") # <<>>
                object_matched == MatchedNames(call.edge, "object") # <<>>
            IN  /\ (~subject_matched /\ object_matched) =>
                       /\ result.classification = "bad"
                       /\ DebugGet("reason", "") = SubjectNotFound
                /\ (subject_matched /\ ~object_matched) =>
                       /\ result.classification = "bad"
                       /\ DebugGet("reason", "") = ObjectNotFound
                /\ (~subject_matched /\ ~object_matched) =>
                       result.classification = "bad")

-----------------------------------------------------------------------------
(* api_functions.api_request_with_retry *)

\* The text of an HTTP status code
StatusDigits(status) ==
    LET Digit(d) == CASE d = 0 -> "0" [] d = 1 -> "1" [] d = 2 -> "2" [] d = 3 -> "3"
                      [] d = 4 -> "4" [] d = 5 -> "5" [] d = 6 -> "6" [] d = 7 -> "7"
                      [] d = 8 -> "8" [] d = 9 -> "9"
    IN  <<Digit(status \div 100), Digit((status \div 10) % 10), Digit(status % 10)>>

ServerErrorText == <<" ", "S", "e", "r", "v", "e", "r", " ", "E", "r", "r", "o", "r">>
ClientErrorText == <<" ", "C", "l", "i", "e", "n", "t", " ", "E", "r", "r", "o", "r">>
RequestFailedText == <<"f", "a", "i", "l", "e", "d", ":", " ">>
ParseFailedText == <<"p", "a", "r", "s", "e", ":", " ">>
ConnectionErrorText == <<"t", "i", "m", "e", "o", "u", "t">>

\* str(e) of the APIException a wrapped request raises: response.raise_for_status()
\* words an HTTP error as '<status> Client Error: ...' below 500 and as
\* '<status> Server Error: ...' from 500 on, and the request function puts its
\* own words in front of it
ExceptionText(outcome) ==
    CASE outcome.kind = "http" ->
             RequestFailedText \o StatusDigits(outcome.status) \o
             (IF outcome.status >= 500 THEN ServerErrorText ELSE ClientErrorText)
      [] outcome.kind = "network" -> RequestFailedText \o ConnectionErrorText
      [] outcome.kind = "parse" -> ParseFailedText

\* A wrapper that takes every failure for a server error
IsServerErrorAlways(outcome) == TRUE

\* "502 Server Error" in str(e) or "503 Server Error" in str(e) or "500 Server Error" in str(e)
IsServerError(outcome) ==
    \/ Contains(ExceptionText(outcome), StatusDigits(502) \o ServerErrorText)
    \/ Contains(ExceptionText(outcome), StatusDigits(503) \o ServerErrorText)
    \/ Contains(ExceptionText(outcome), StatusDigits(500) \o ServerErrorText)

\* A wrapper that never notices its last attempt
IsLastAttemptNever(attempt, max_retries) == FALSE

\* if attempt == max_retries: break
IsLastAttempt(attempt, max_retries) == attempt = max_retries

\* The loop of api_request_with_retry from one attempt on.  outcomes[k] is
\* what the k-th invocation of the wrapped request does; trace lists the
\* invocations and the sleeps in the order they happen.  A sleep lasts
\* base_delay * 2 ** attempt plus a random part below one second.
RECURSIVE RetryLoop(_, _, _, _, _, _)
RetryLoop(outcomes, max_retries, base_delay, attempt, last_exception, trace) ==
    IF attempt > max_retries
    THEN [status |-> "raised", value |-> last_exception, trace |-> trace]
    ELSE LET outcome == outcomes[attempt + 1]
             invoked == Append(trace, [event |-> "request", outcome |-> outcome])
         IN  IF outcome.kind = "ok"
             THEN [status |-> "returned", value |-> outcome, trace |-> invoked]
             ELSE IF outcome.kind = "uncaught"
             THEN [status |-> "raised", value |-> outcome, trace |-> invoked]
             ELSE IF IsLastAttempt(attempt, max_retries)
             THEN [status |-> "raised", value |-> outcome, trace |-> invoked]
             ELSE IF IsServerError(outcome)
             THEN RetryLoop(outcomes, max_retries, base_delay, attempt + 1, outcome,
                            Append(invoked, [event |-> "sleep",
                                             at_least |-> base_delay * 2 ^ attempt]))
             ELSE [status |-> "raised", value |-> outcome, trace |-> invoked]

api_request_with_retry(outcomes, max_retries, base_delay) ==
    RetryLoop(outcomes, max_retries, base_delay, 0, None, <<>>)

-----------------------------------------------------------------------------
(* Specification of the retry wrapper: one call of api_request_with_retry,   *)
(* for every course the wrapped request can take                             *)

DefaultMaxRetries == 3
DefaultBaseDelay == 1

\* HTTP statuses the services may answer with
HttpStatuses == {400, 404, 429, 500, 501, 502, 503, 504}

\* What one invocation of the wrapped request does: it returns the response,
\* raises APIException for an HTTP error status, a network failure or an
\* unparsable body, or raises something else
RequestOutcomes ==
    { [kind |-> "ok", status |-> 200] }
    \cup { [kind |-> "http", status |-> status] : status \in HttpStatuses }
    \cup { [kind |-> "network", status |-> 0], [kind |-> "parse", status |-> 200],
           [kind |-> "uncaught", status |-> 0] }

\* Sequences of exactly n elements
RECURSIVE ListsOf(_, _)
ListsOf(elements, n) ==
    IF n = 0 THEN {<<>>}
    ELSE {Append(l, e) : l \in ListsOf(elements, n - 1), e \in elements}

InitRetry ==
    /\ pc = "called"
    /\ \E max_retries \in 0..MaxRetries :
       \E outcomes \in ListsOf(RequestOutcomes, max_retries + 1) :
           call = [op |-> "api_request_with_retry", max_retries |-> max_retries,
                   base_delay |-> DefaultBaseDelay, outcomes |-> outcomes]
    /\ result = <<>>
    /\ normalized_entities = EmptyDict
    /\ synonyms_data = EmptyDict
    /\ edges = <<>>
    /\ output_files = NoOutputFiles
    /\ effects = <<>>
    /\ current_indices = EmptyDict

ApiRequestWithRetry ==
    /\ pc = "called"
    /\ call.op = "api_request_with_retry"
    /\ result' = api_request_with_retry(call.outcomes, call.max_retries, call.base_delay)
    /\ pc' = "returned"
    /\ UNCHANGED <<call, normalized_entities, synonyms_data,
                   edges, output_files, effects>>
    /\ UNCHANGED current_indices

NextRetry == ApiRequestWithRetry

SpecRetry == InitRetry /\ [][NextRetry]_vars

-----------------------------------------------------------------------------
(* Properties of the retry wrapper (SpecRetry) *)

RetryReturned == pc = "returned" /\ call.op = "api_request_with_retry"

\* The invocations of the wrapped request, in order
Requests == SelectSeq(result.trace, LAMBDA ev : ev.event = "request")

\* The wrapped request failed with a 5xx server error
IsFiveXX(outcome) == outcome.kind = "http" /\ outcome.status \in 500..599

Failed(outcome) == outcome.kind # "ok"

\* The position in the trace of the k-th invocation
RequestPosition(k) ==
    CHOOSE i \in 1..Len(result.trace) :
        /\ result.trace[i].event = "request"
        /\ Cardinality({j \in 1..i : result.trace[j].event = "request"}) = k

\* C11: a failure of the wrapped request that is not a 5xx server error is
\* re-raised at once: it is the last event of the call, nothing is slept and
\* nothing is invoked after it; when the first invocation fails so, the request
\* was invoked exactly once.
C11_NoRetryUnlessServerError ==
    RetryReturned =>
        \A i \in 1..Len(result.trace) :
            LET ev == result.trace[i] IN
            (ev.event = "request" /\ Failed(ev.outcome) /\ ~IsFiveXX(ev.outcome)) =>
                /\ i = Len(result.trace)
                /\ result.status = "raised"
                /\ result.value = ev.outcome
                /\ (i = 1 => Len(Requests) = 1)

\* C11 witness: the first invocation failed with a 4xx status and the call
\* raised it after that single invocation, although retries were allowed.
C11_Witness ==
    /\ RetryReturned
    /\ call.max_retries > 0
    /\ call.outcomes[1].kind = "http" /\ call.outcomes[1].status = 404
    /\ call.outcomes[2].kind = "ok"
    /\ result.status = "raised"
    /\ Len(result.trace) = 1

\* C12: every 5xx failure of the wrapped request (HTTP status 500 to 599) met
\* while retries remain is followed by a sleep and a further invocation; it is
\* not propagated.
C12_EveryServerErrorRetried ==
    RetryReturned =>
        \A k \in 1..Len(Requests) :
            (IsFiveXX(Requests[k].outcome) /\ k <= call.max_retries) =>
                /\ Len(Requests) > k
                /\ result.trace[RequestPosition(k) + 1].event = "sleep"

\* C13: the wrapped request is invoked at most max_retries + 1 times; the
\* result of the first successful invocation is returned and nothing happens
\* after it; when all max_retries + 1 invocations fail with a retried server
\* error, the error of the last one is raised and no sleep follows it.
C13_BoundedAttempts ==
    RetryReturned =>
        /\ Len(Requests) <= call.max_retries + 1
        /\ \A k \in 1..Len(Requests) :
               Requests[k].outcome.kind = "ok" =>
                   /\ k = Len(Requests)
                   /\ result.status = "returned"
                   /\ result.value = Requests[k].outcome
                   /\ result.trace[Len(result.trace)].event = "request"
                   /\ \A j \in 1..(k - 1) : Failed(call.outcomes[j])
        /\ (\A k \in 1..(call.max_retries + 1) :
                call.outcomes[k].kind = "http" /\ call.outcomes[k].status \in {500, 502, 503}) =>
               /\ Len(Requests) = call.max_retries + 1
               /\ result.status = "raised"
               /\ result.value = call.outcomes[call.max_retries + 1]
               /\ result.trace[Len(result.trace)].event = "request"

\* C13 witness: with the default of three retries, four invocations failed
\* with server errors and the call raised the last of them after three sleeps.
C13_Witness ==
    /\ RetryReturned
    /\ call.max_retries = DefaultMaxRetries
    /\ Len(Requests) = DefaultMaxRetries + 1
    /\ result.status = "raised"
    /\ result.value = [kind |-> "http", status |-> 503]
    /\ call.outcomes[1] # call.outcomes[4]
    /\ Len(result.trace) = 2 * DefaultMaxRetries + 1

-----------------------------------------------------------------------------
(* api_functions.batch_get_normalized_nodes and batch_get_synonyms *)

DefaultNormalizerBatchSize == 2000
DefaultSynonymsBatchSize == 500

\* all_curies[start:stop]
Slice(l, start, stop) ==
    SubSeq(l, start + 1, IF stop < Len(l) THEN stop ELSE Len(l))

\* results.update(batch_results)
DictUpdate(results, batch_results) == batch_results @@ results

\* The JSON object a service answers to one request: its entries for the
\* requested identifiers
ServiceAnswer(service, batch) ==
    LET keys == {batch[k] : k \in 1..Len(batch)} \cap DOMAIN service
    IN  IF keys = {} THEN EmptyDict ELSE [key \in keys |-> service[key]]

\* A loop that steps one item too far
NextBatchStartSkipping(i, batch_size) == i + batch_size + 1

\* for i in range(0, len(all_curies), batch_size)
NextBatchStart(i, batch_size) == i + batch_size

\* The loop shared by batch_get_normalized_nodes and batch_get_synonyms from
\* offset i on.  courses[b] is what the requests of the b-th batch do, attempt
\* by attempt; trace lists the calls of api_request_with_retry with the
\* batch each one sends, and the pauses between batches.
RECURSIVE BatchLoop(_, _, _, _, _, _, _, _)
BatchLoop(func, all_curies, batch_size, service, courses, i, results, trace) ==
    IF i >= Len(all_curies)
    THEN [status |-> "returned", value |-> results, trace |-> trace]
    ELSE LET batch == Slice(all_curies, i, i + batch_size)
             attempt == api_request_with_retry(courses[i \div batch_size + 1],
                                               DefaultMaxRetries, DefaultBaseDelay)
             requested == Append(trace, [event |-> "api_request_with_retry", func |-> func,
                                         batch |-> batch, attempts |-> attempt.trace])
         IN  IF attempt.status = "raised"
             THEN [status |-> "raised", value |-> attempt.value, trace |-> requested]
             ELSE BatchLoop(func, all_curies, batch_size, service, courses,
                            NextBatchStart(i, batch_size),
                            DictUpdate(results, ServiceAnswer(service, batch)),
                            IF i + batch_size < Len(all_curies)
                            THEN Append(requested, [event |-> "pause"])
                            ELSE requested)

batch_get_normalized_nodes(all_curies, batch_size, service, courses) ==
    BatchLoop("get_normalized_nodes", all_curies, batch_size, service, courses,
              0, EmptyDict, <<>>)

batch_get_synonyms(preferred_curies, batch_size, service, courses) ==
    BatchLoop("get_synonyms", preferred_curies, batch_size, service, courses,
              0, EmptyDict, <<>>)

-----------------------------------------------------------------------------
(* Specification of the batch functions: one call of                        *)
(* batch_get_normalized_nodes or batch_get_synonyms                          *)

Curies == <<"C1", "C2", "C3", "C4", "C5", "C6">>

\* Input lists: the first n identifiers, and a list that repeats one
CurieLists ==
    { SubSeq(Curies, 1, n) : n \in 0..MaxCuries } \cup { <<"C1", "C2", "C1">> }

\* What the requests of one batch do: succeed, succeed after a server error,
\* fail for good at once, fail for good after all retries
Succeeds == [kind |-> "ok", status |-> 200]
Unavailable == [kind |-> "http", status |-> 503]
NotFound == [kind |-> "http", status |-> 404]

RequestCourses ==
    { <<Succeeds, Succeeds, Succeeds, Succeeds>>,
      <<Unavailable, Succeeds, Succeeds, Succeeds>>,
      <<NotFound, Succeeds, Succeeds, Succeeds>>,
      <<Unavailable, Unavailable, Unavailable, Unavailable>> }

\* The normalizer knows C1 (under the identifier P), C2 and C4, answers null
\* for C3 and has no entry for the others; or it knows nothing
NormalizerServices ==
    { ("C1" :> Normalized("P", <<BiolinkGene>>)) @@
      ("C2" :> Normalized("C2", <<BiolinkSmallMolecule>>)) @@
      ("C3" :> NullEntity) @@
      ("C4" :> Normalized("C4", <<BiolinkDisease>>)),
      EmptyDict }

\* The synonym service has names for C1, C2 and C4 and none for C3
SynonymServices ==
    { ("C1" :> NamesOnly(<<foo>>)) @@ ("C2" :> NamesOnly(<<bar>>)) @@
      ("C4" :> NamesOnly(<<Foo, foo>>)),
      EmptyDict }

InitBatch ==
    /\ pc = "called"
    /\ \E all_curies \in CurieLists, batch_size \in 1..MaxBatchSize :
       \E courses \in ListsOf(RequestCourses, MaxCuries) :
           \/ \E service \in NormalizerServices :
                  call = [op |-> "batch_get_normalized_nodes", all_curies |-> all_curies,
                          batch_size |-> batch_size, service |-> service,
                          courses |-> courses]
           \/ \E service \in SynonymServices :
                  call = [op |-> "batch_get_synonyms", all_curies |-> all_curies,
                          batch_size |-> batch_size, service |-> service,
                          courses |-> courses]
    /\ result = <<>>
    /\ normalized_entities = EmptyDict
    /\ synonyms_data = EmptyDict
    /\ edges = <<>>
    /\ output_files = NoOutputFiles
    /\ effects = <<>>
    /\ current_indices = EmptyDict

BatchGetNormalizedNodes ==
    /\ pc = "called"
    /\ call.op = "batch_get_normalized_nodes"
    /\ result' = batch_get_normalized_nodes(call.all_curies, call.batch_size,
                                            call.service, call.courses)
    /\ pc' = "returned"
    /\ UNCHANGED <<call, normalized_entities, synonyms_data,
                   edges, output_files, effects>>
    /\ UNCHANGED current_indices

BatchGetSynonyms ==
    /\ pc = "called"
    /\ call.op = "batch_get_synonyms"
    /\ result' = batch_get_synonyms(call.all_curies, call.batch_size,
                                    call.service, call.courses)
    /\ pc' = "returned"
    /\ UNCHANGED <<call, normalized_entities, synonyms_data,
                   edges, output_files, effects>>
    /\ UNCHANGED current_indices

NextBatch ==
    \/ BatchGetNormalizedNodes
    \/ BatchGetSynonyms

SpecBatch == InitBatch /\ [][NextBatch]_vars

-----------------------------------------------------------------------------
(* Properties of the batch functions (SpecBatch) *)

BatchReturned ==
    /\ pc = "returned"
    /\ call.op \in {"batch_get_normalized_nodes", "batch_get_synonyms"}

\* The calls of the retry wrapper, in order
WrapperCalls == SelectSeq(result.trace, LAMBDA ev : ev.event = "api_request_with_retry")

\* ceil(n / batch_size)
CeilDiv(n, d) == (n + d - 1) \div d

RECURSIVE Concatenation(_, _)
Concatenation(batches, k) ==
    IF k = 0 THEN <<>> ELSE Concatenation(batches, k - 1) \o batches[k].batch

\* C14: a successful batch_get_normalized_nodes / batch_get_synonyms calls the
\* retry wrapper once per batch, ceil(n / batch_size) times (never for an empty
\* input); the batches hold at most batch_size items each and are consecutive
\* pieces of the input, so that every input item is sent in exactly one batch;
\* the value returned is the union of the answers to all batches.
C14_OneRequestPerBatch ==
    (BatchReturned /\ result.status = "returned") =>
        LET n == Len(call.all_curies)
            sent == WrapperCalls
        IN  /\ Len(sent) = CeilDiv(n, call.batch_size)
            /\ \A b \in 1..Len(sent) :
                   /\ Len(sent[b].batch) \in 1..call.batch_size
                   /\ sent[b].func = (IF call.op = "batch_get_normalized_nodes"
                                      THEN "get_normalized_nodes" ELSE "get_synonyms")
            /\ Concatenation(sent, Len(sent)) = call.all_curies
            /\ DOMAIN result.value =
                   UNION { DOMAIN ServiceAnswer(call.service, sent[b].batch) :
                           b \in 1..Len(sent) }
            /\ \A key \in DOMAIN result.value : result.value[key] = call.service[key]

\* C14 witness: four items were sent in batches of three and one, the first
\* batch after a retry, and the answers of both batches were returned.
C14_Witness ==
    /\ BatchReturned
    /\ result.status = "returned"
    /\ Len(call.all_curies) = 4
    /\ call.batch_size = 3
    /\ Len(WrapperCalls) = 2
    /\ Len(WrapperCalls[1].attempts) > 1
    /\ DOMAIN result.value = {"C1", "C2", "C3", "C4"}

-----------------------------------------------------------------------------
(* Properties of the candidate lists (SpecDisambig) *)

\* The raw lookup results for the synonym: its cache entry, or what
\* lookup_names answered
RawResults ==
    IF call.op = "check_ambiguous_matches_with_cache"
    THEN DictGet(call.lookup_cache, DisambigSynonym, <<>>)
    ELSE call.lookup_names[DisambigSynonym].results

\* The candidate list the disambiguation works on: the cache entry passed
\* through get_exact_matches, or the exact matches check_ambiguous_matches
\* collects
CandidateList ==
    IF call.op = "check_ambiguous_matches_with_cache"
    THEN get_exact_matches(RawResults)
    ELSE ExactLoop(DisambigSynonym, RawResults, 1, <<>>)

\* The raw result matches the synonym: its label or an entry of its synonym
\* list equals the synonym, case-insensitively
MatchesSynonym(r) ==
    \/ r.label # None /\ Lower(r.label) = Lower(DisambigSynonym)
    \/ \E j \in 1..Len(r.synonyms) : Lower(r.synonyms[j]) = Lower(DisambigSynonym)

\* C20: the candidate list used for disambiguating a synonym holds exactly the
\* raw lookup results whose label or one of whose synonym-list entries equals
\* the synonym case-insensitively: no raw result that matches in neither way is
\* in it (nor in the lookup data kept for the synonym), and none that matches
\* only by its label or only in another letter case is dropped.
C20_ExactMatchFiltered ==
    DisambigReturned =>
        LET matching == SelectSeq(RawResults, MatchesSynonym)
            kept == IF DisambigSynonym \in DOMAIN result.lookup_data
                    THEN result.lookup_data[DisambigSynonym] ELSE <<>>
        IN  /\ CandidateList =
                   IF call.op = "check_ambiguous_matches_with_cache" THEN matching
                   ELSE [i \in 1..Len(matching) |-> format_lookup_result(matching[i])]
            /\ \A i \in 1..Len(kept) : MatchesSynonym(kept[i])

-----------------------------------------------------------------------------
(* EdgeClassifier.__init__, load_data, collect_entities, normalize_entities   *)
(* and get_all_synonyms                                                       *)

\* A constructor that leaves the output files of an earlier run in place
KeepOutputFiles(files) == files

\* __init__: every output file that exists is unlinked
ClearOutputFiles(files) == NoOutputFiles

\* max_edges when run() or load_data() is called without it (None); like 0 it
\* is falsy and sets no limit
NoLimit == 0

\* The lines of the edges file that load_data reads:
\* if max_edges and i >= max_edges: break
LoadedLines(corpus, max_edges) ==
    IF max_edges # NoLimit /\ max_edges < Len(corpus)
    THEN SubSeq(corpus, 1, max_edges)
    ELSE corpus

\* load_data: every loaded edge gets a fresh edge_id; uuid stands for the
\* random part of str(uuid.uuid4()) in this call
load_data(corpus, max_edges, uuid) ==
    LET lines == LoadedLines(corpus, max_edges)
    IN  [i \in 1..Len(lines) |-> [edge_id |-> <<uuid, i>>] @@ lines[i]]

\* A collection that leaves the objects out
collect_subjects_only(loaded) == { loaded[i].subject : i \in 1..Len(loaded) }

\* collect_entities: the set of subjects and objects of the loaded edges
collect_entities(loaded) ==
    UNION { {loaded[i].subject, loaded[i].object} : i \in 1..Len(loaded) }

\* list(a_set): the elements in one of the orders the set may iterate in
Orderings(S) ==
    { l \in [1..Cardinality(S) -> S] :
        \A i, j \in 1..Cardinality(S) : i # j => l[i] # l[j] }

\* A normalize_entities that reports the error and carries on without results
normalize_entities_swallowing(entities_list, service, courses) ==
    LET fetched == batch_get_normalized_nodes(entities_list, DefaultNormalizerBatchSize,
                                              service, courses)
    IN  IF fetched.status = "raised"
        THEN [status |-> "returned", value |-> EmptyDict, trace |-> fetched.trace]
        ELSE fetched

\* normalize_entities: batch_get_normalized_nodes with its default batch size;
\* an APIException is printed and raised again
normalize_entities(entities_list, service, courses) ==
    batch_get_normalized_nodes(entities_list, DefaultNormalizerBatchSize, service, courses)

\* The preferred identifiers get_all_synonyms extracts from
\* self.normalized_entities, duplicates removed
PreferredCuries(normalized) ==
    { normalized[curie].identifier :
        curie \in { c \in DOMAIN normalized :
                      ~normalized[c].null /\ normalized[c].identifier # "" } }

\* get_all_synonyms: batch_get_synonyms with its default batch size; an
\* APIException is printed and raised again
get_all_synonyms(preferred_curies, service, courses) ==
    batch_get_synonyms(preferred_curies, DefaultSynonymsBatchSize, service, courses)

-----------------------------------------------------------------------------
(* EdgeClassifier.write_edge_result, execute_bulk_lookups,                    *)
(* process_batch_with_cache, process_all_edges_batched and process_all_edges  *)

\* A write_edge_result that puts every row into the file of the bad edges
OutputFileAlwaysBad(classification) == "bad"

\* The output file write_edge_result chooses for a classification
OutputFileFor(classification) ==
    IF classification = "good" THEN "good"
    ELSE IF classification = "bad" THEN "bad"
    ELSE "ambiguous"

\* node.get('name', curie) if node else curie.  A node is [has_name, name].
NodeName(nodes, curie) ==
    IF curie \in DOMAIN nodes /\ nodes[curie].has_name THEN nodes[curie].name ELSE curie

\* The row write_edge_result appends: the edge with the classification, the
\* phase, the entity names and the debug information
ResultEdge(edge, classification, debug_info, nodes) ==
    [qc_classification |-> classification,
     qc_phase |-> "phase1_entity_identification",
     subject_name |-> NodeName(nodes, edge.subject),
     object_name |-> NodeName(nodes, edge.object),
     qc_debug |-> debug_info] @@ edge

\* A write_edge_result that opens the output file for writing, not appending
write_edge_result_truncating(edge, classification, debug_info, nodes, files) ==
    [files EXCEPT ![OutputFileFor(classification)] =
         <<ResultEdge(edge, classification, debug_info, nodes)>>]

\* write_edge_result: the files after the row was appended
write_edge_result(edge, classification, debug_info, nodes, files) ==
    LET output_file == OutputFileFor(classification)
    IN  [files EXCEPT ![output_file] =
             Append(@, ResultEdge(edge, classification, debug_info, nodes))]

\* The event that records the appended row
WriteEvent(edge, classification, debug_info, nodes) ==
    [event |-> "write", file |-> OutputFileFor(classification),
     row |-> ResultEdge(edge, classification, debug_info, nodes)]

\* classification_counts[classification] += 1 on a defaultdict(int)
Increment(counts, key, by) == DictSet(counts, key, DictGet(counts, key, 0) + by)

\* What lookup_names answers for a query in a world: the results the name
\* resolver has for it, or an APIException while single lookups fail
lookup_names(world, query) ==
    IF world.lookup_fails THEN ApiError ELSE Ok(world.lookup_results[query])

\* The part of execute_bulk_lookups after a failed bulk request: one
\* lookup_names per synonym of the group, a failed one leaving an empty list.
\* The lookups do not depend on each other, so one iteration order of the set
\* stands for all.
RECURSIVE FallbackLoop(_, _, _, _)
FallbackLoop(world, synonyms, lookup_cache, trace) ==
    IF synonyms = {} THEN [lookup_cache |-> lookup_cache, trace |-> trace]
    ELSE LET synonym == CHOOSE s \in synonyms : TRUE
             response == lookup_names(world, synonym)
         IN  FallbackLoop(world, synonyms \ {synonym},
                          DictSet(lookup_cache, synonym, response.results),
                          Append(trace, [event |-> "lookup_names", query |-> synonym,
                                         biolink_type |-> None, only_taxa |-> NoTaxa,
                                         status |-> response.status]))

\* execute_bulk_lookups: one bulk_lookup_names request for the group
\* 'default' when it exists; when the request fails, single lookups instead
execute_bulk_lookups(synonym_groups, world) ==
    IF "default" \notin DOMAIN synonym_groups
    THEN [lookup_cache |-> EmptyDict, trace |-> <<>>]
    ELSE LET synonyms == synonym_groups["default"]
             sent == [event |-> "bulk_lookup_names", strings |-> synonyms,
                      only_taxa |-> NoTaxa,
                      status |-> IF world.bulk_fails THEN ApiError.status ELSE "ok"]
         IN  IF world.bulk_fails
             THEN FallbackLoop(world, synonyms, EmptyDict, <<sent>>)
             ELSE [lookup_cache |-> [s \in synonyms |-> world.lookup_results[s]],
                   trace |-> <<sent>>]

\* process_batch_with_cache from the k-th edge of the batch on: classify,
\* count, write.  CacheBatchStep is the loop body once the edge is classified.
RECURSIVE CacheBatchLoop(_, _, _, _, _, _, _)
RECURSIVE CacheBatchStep(_, _, _, _, _, _, _, _)
CacheBatchLoop(batch, lookup_cache, nodes, k, counts, files, trace) ==
    IF k > Len(batch) THEN [counts |-> counts, files |-> files, trace |-> trace]
    ELSE CacheBatchStep(batch, lookup_cache, nodes, k, counts, files, trace,
                        classify_edge_with_cache(batch[k], lookup_cache))

CacheBatchStep(batch, lookup_cache, nodes, k, counts, files, trace, classified) ==
    CacheBatchLoop(batch, lookup_cache, nodes, k + 1,
        Increment(counts, classified.classification, 1),
        write_edge_result(batch[k], classified.classification,
                          classified.debug_info, nodes, files),
        Append(trace, WriteEvent(batch[k], classified.classification,
                                 classified.debug_info, nodes)))

process_batch_with_cache(batch, lookup_cache, nodes, files) ==
    CacheBatchLoop(batch, lookup_cache, nodes, 1, EmptyDict, files, <<>>)

\* total_classification_counts[classification] += count for every entry of
\* batch_counts
RECURSIVE AddCounts(_, _)
AddCounts(total, batch_counts) ==
    IF DOMAIN batch_counts = {} THEN total
    ELSE LET c == CHOOSE k \in DOMAIN batch_counts : TRUE
         IN  AddCounts(Increment(total, c, batch_counts[c]),
                       [k \in DOMAIN batch_counts \ {c} |-> batch_counts[k]])

DefaultEdgeBatchSize == 1000

\* process_all_edges_batched from offset i on: per batch collect the synonyms,
\* look them up, then classify and write the edges of the batch.
\* EdgeBatchLookedUp and EdgeBatchProcessed are the loop body after step 2
\* and after step 3.
RECURSIVE EdgeBatchLoop(_, _, _, _, _, _, _)
RECURSIVE EdgeBatchLookedUp(_, _, _, _, _, _, _, _, _)
RECURSIVE EdgeBatchProcessed(_, _, _, _, _, _, _, _, _)
EdgeBatchLoop(loaded, batch_size, world, i, total_counts, files, trace) ==
    IF i >= Len(loaded)
    THEN [status |-> "returned", value |-> total_counts, files |-> files, trace |-> trace]
    ELSE EdgeBatchLookedUp(loaded, batch_size, world, i, total_counts, files, trace,
             Slice(loaded, i, i + batch_size),
             execute_bulk_lookups(
                 collect_all_synonyms_from_batch(Slice(loaded, i, i + batch_size)), world))

EdgeBatchLookedUp(loaded, batch_size, world, i, total_counts, files, trace, batch, looked_up) ==
    EdgeBatchProcessed(loaded, batch_size, world, i, total_counts, files,
        trace \o <<[event |-> "batch", edges |-> batch,
                     lookup_cache |-> looked_up.lookup_cache]>> \o looked_up.trace,
        batch,
        process_batch_with_cache(batch, looked_up.lookup_cache, world.nodes, files))

EdgeBatchProcessed(loaded, batch_size, world, i, total_counts, files, trace, batch, processed) ==
    EdgeBatchLoop(loaded, batch_size, world, i + batch_size,
                  AddCounts(total_counts, processed.counts),
                  processed.files,
                  trace \o processed.trace)

process_all_edges_batched(loaded, batch_size, world, files) ==
    EdgeBatchLoop(loaded, batch_size, world, 0, EmptyDict, files, <<>>)

\* The lookup_names requests of one classify_edge call: one per found synonym
\* of the subject, then of the object, made once both were found in the text
RECURSIVE LookupEvents(_, _, _, _)
LookupEvents(world, found_synonyms, expected_biolink_type, k) ==
    IF k > Len(found_synonyms) THEN <<>>
    ELSE <<[event |-> "lookup_names", query |-> found_synonyms[k],
            biolink_type |-> expected_biolink_type,
            only_taxa |-> OnlyTaxa(expected_biolink_type),
            status |-> lookup_names(world, found_synonyms[k]).status]>>
         \o LookupEvents(world, found_synonyms, expected_biolink_type, k + 1)

\* What lookup_names answers for every query, for both roles of an edge
LookupNamesAnswers(world) ==
    LET answers == [query \in DOMAIN world.lookup_results |-> lookup_names(world, query)]
    IN  [subject |-> answers, object |-> answers]

\* process_all_edges from the k-th edge on: classify, count, write.  EdgeStep
\* is the loop body once the edge is classified.
RECURSIVE EdgeLoop(_, _, _, _, _, _)
RECURSIVE EdgeStep(_, _, _, _, _, _, _, _)
EdgeLoop(loaded, world, k, counts, files, trace) ==
    IF k > Len(loaded)
    THEN [status |-> "returned", value |-> counts, files |-> files, trace |-> trace]
    ELSE EdgeStep(loaded, world, k, counts, files, trace, loaded[k],
                  classify_edge(loaded[k], LookupNamesAnswers(world)))

EdgeStep(loaded, world, k, counts, files, trace, edge, classified) ==
    EdgeLoop(loaded, world, k + 1,
             Increment(counts, classified.classification, 1),
             write_edge_result(edge, classified.classification, classified.debug_info,
                               world.nodes, files),
             trace \o (IF "subject_lookup_data" \in DOMAIN classified.debug_info
                       THEN LookupEvents(world, classified.debug_info.subject_synonyms_found,
                                         BiolinkType(NormalizedGet(normalized_entities, edge.subject)), 1)
                            \o LookupEvents(world, classified.debug_info.object_synonyms_found,
                                            BiolinkType(NormalizedGet(normalized_entities, edge.object)), 1)
                       ELSE <<>>)
                   \o <<WriteEvent(edge, classified.classification,
                                   classified.debug_info, world.nodes)>>)

process_all_edges(loaded, world, files) ==
    EdgeLoop(loaded, world, 1, EmptyDict, files, <<>>)

-----------------------------------------------------------------------------
(* Specification of a pipeline run: an EdgeClassifier is constructed, loads   *)
(* the corpus, normalizes the entities, fetches the synonyms and processes    *)
(* the edges, by run() or by a caller of process_all_edges_batched or         *)
(* process_all_edges; after run() a second classifier may be constructed on   *)
(* the same output directory and run on the same corpus against the same      *)
(* services                                                                   *)

MaxEdges == 2

RunOps == {"run", "process_all_edges_batched", "process_all_edges"}

\* Lines of the edges file: A and B with both names in the text, with the word
\* names as text, and without text
RunEdgeLines ==
    { [subject |-> "A", object |-> "B", sentences |-> text] :
        text \in { Words(foo, bar), NamesKey, NA } }

RunCorpora == ListsUpTo(RunEdgeLines, MaxEdges)

\* The nodes file names A and lists B without a name
RunNodes ==
    ("A" :> [has_name |-> TRUE, name |-> "alpha"]) @@
    ("B" :> [has_name |-> FALSE, name |-> ""])

\* The normalizer keeps A, or maps it to P; B is kept
RunNormalizers ==
    { ("A" :> Normalized(a, <<BiolinkGene>>)) @@
      ("B" :> Normalized("B", <<BiolinkSmallMolecule>>)) : a \in {"A", "P"} }

RunSynonymService ==
    ("A" :> NamesOnly(<<foo>>)) @@ ("P" :> NamesOnly(<<Foo, foo>>)) @@
    ("B" :> NamesOnly(<<bar>>))

\* What the name resolver has for each query: one entity each, or a second
\* entity of the same label for foo and for the word names
RunLookupResults ==
    { (foo :> SubSeq(<<[curie |-> "A", label |-> foo, synonyms |-> <<foo>>],
                       [curie |-> "X", label |-> FOO, synonyms |-> <<foo>>]>>, 1, entities)) @@
      (Foo :> <<>>) @@
      (bar :> ObjectResultList) @@
      (NamesKey :> SubSeq(NamesResultList, 1, entities)) :
        entities \in {1, 2} }

AllSucceed == <<Succeeds, Succeeds, Succeeds, Succeeds>>

\* What goes wrong during a run: the normalizer request or the synonym request
\* takes one of the courses, or the lookups fail (the bulk request, the single
\* requests, or both)
RunFaults ==
    { [normalizer |-> c, synonyms |-> AllSucceed, bulk_fails |-> FALSE, lookup_fails |-> FALSE] :
        c \in RequestCourses } \cup
    { [normalizer |-> AllSucceed, synonyms |-> c, bulk_fails |-> FALSE, lookup_fails |-> FALSE] :
        c \in RequestCourses } \cup
    { [normalizer |-> AllSucceed, synonyms |-> AllSucceed, bulk_fails |-> b, lookup_fails |-> l] :
        b \in BOOLEAN, l \in BOOLEAN }

\* The random parts of the edge ids of one load_data call
Uuids == {"u1", "u2"}

\* Those that are in rows written so far; uuid4 does not repeat them
UsedUuids == { ev.row.edge_id[1] : ev \in { e \in { effects[k] : k \in 1..Len(effects) } : e.event = "write" } }

RunCalls ==
    { [op |-> op_size[1], batch_size |-> op_size[2], corpus |-> corpus,
       max_edges |-> max_edges, normalizer |-> normalizer,
       normalizer_courses |-> <<fault.normalizer>>,
       synonyms |-> RunSynonymService, synonyms_courses |-> <<fault.synonyms>>,
       world |-> [lookup_results |-> lookup_results, bulk_fails |-> fault.bulk_fails,
                  lookup_fails |-> fault.lookup_fails, nodes |-> RunNodes]] :
        op_size \in { <<"run", DefaultEdgeBatchSize>>,
                      <<"process_all_edges", DefaultEdgeBatchSize>> } \cup
                    { <<"process_all_edges_batched", size>> : size \in 1..MaxEdges },
        corpus \in RunCorpora, max_edges \in {NoLimit, 1},
        normalizer \in RunNormalizers, fault \in RunFaults,
        lookup_results \in RunLookupResults }

InitRun ==
    /\ pc = "constructed"
    /\ call \in RunCalls
    /\ result = <<>>
    /\ normalized_entities = EmptyDict
    /\ synonyms_data = EmptyDict
    /\ edges = <<>>
    /\ output_files = NoOutputFiles
    /\ effects = <<>>
    /\ current_indices = EmptyDict

\* load_data(max_edges)
RunLoadData ==
    /\ pc = "constructed"
    /\ call.op \in RunOps
    /\ \E uuid \in Uuids \ UsedUuids : edges' = load_data(call.corpus, call.max_edges, uuid)
    /\ pc' = "loaded"
    /\ UNCHANGED <<call, result, normalized_entities, synonyms_data,
                   output_files, effects>>
    /\ UNCHANGED current_indices

\* normalize_entities(collect_entities())
RunNormalizeEntities ==
    /\ pc = "loaded"
    /\ call.op \in RunOps
    /\ \E entities_list \in Orderings(collect_entities(edges)) :
       \E fetched \in {normalize_entities(entities_list, call.normalizer,
                                           call.normalizer_courses)} :
               /\ effects' = effects \o fetched.trace
               /\ IF fetched.status = "raised"
                  THEN /\ pc' = "raised"
                       /\ result' = [status |-> "raised", value |-> fetched.value]
                       /\ UNCHANGED normalized_entities
                  ELSE /\ pc' = "normalized"
                       /\ normalized_entities' = fetched.value
                       /\ UNCHANGED result
    /\ UNCHANGED <<call, synonyms_data, edges, output_files>>
    /\ UNCHANGED current_indices

\* get_all_synonyms()
RunGetAllSynonyms ==
    /\ pc = "normalized"
    /\ call.op \in RunOps
    /\ \E preferred_curies \in Orderings(PreferredCuries(normalized_entities)) :
       \E fetched \in {get_all_synonyms(preferred_curies, call.synonyms,
                                         call.synonyms_courses)} :
               /\ effects' = effects \o fetched.trace
               /\ IF fetched.status = "raised"
                  THEN /\ pc' = "raised"
                       /\ result' = [status |-> "raised", value |-> fetched.value]
                       /\ UNCHANGED synonyms_data
                  ELSE /\ pc' = "ready"
                       /\ synonyms_data' = fetched.value
                       /\ UNCHANGED result
    /\ UNCHANGED <<call, normalized_entities, edges, output_files>>
    /\ UNCHANGED current_indices

\* process_all_edges_batched(), with the default batch size when run() calls it
ProcessAllEdgesBatched ==
    /\ pc = "ready"
    /\ call.op \in {"run", "process_all_edges_batched"}
    /\ \E processed \in {process_all_edges_batched(edges, call.batch_size, call.world,
                                                      output_files)} :
           /\ output_files' = processed.files
           /\ effects' = effects \o processed.trace
           /\ result' = [status |-> "returned", value |-> processed.value]
    /\ pc' = "finished"
    /\ UNCHANGED <<call, normalized_entities, synonyms_data, edges>>
    /\ UNCHANGED current_indices

\* process_all_edges()
ProcessAllEdges ==
    /\ pc = "ready"
    /\ call.op = "process_all_edges"
    /\ \E processed \in {process_all_edges(edges, call.world, output_files)} :
           /\ output_files' = processed.files
           /\ effects' = effects \o processed.trace
           /\ result' = [status |-> "returned", value |-> processed.value]
    /\ pc' = "finished"
    /\ UNCHANGED <<call, normalized_entities, synonyms_data, edges>>
    /\ UNCHANGED current_indices

\* The constructions of a classifier after the first
Constructions == SelectSeq(effects, LAMBDA ev : ev.event = "__init__")

\* EdgeClassifier(...) once more, on the output directory of the run that ended
ConstructAgain ==
    /\ pc \in {"finished", "raised"}
    /\ call.op = "run"
    /\ Constructions = <<>>
    /\ edges' = <<>>
    /\ normalized_entities' = EmptyDict
    /\ synonyms_data' = EmptyDict
    /\ output_files' = ClearOutputFiles(output_files)
    /\ effects' = Append(effects, [event |-> "__init__",
                                   found |-> output_files])
    /\ result' = <<>>
    /\ pc' = "constructed"
    /\ UNCHANGED call
    /\ UNCHANGED current_indices

NextRun ==
    \/ RunLoadData
    \/ RunNormalizeEntities
    \/ RunGetAllSynonyms
    \/ ProcessAllEdgesBatched
    \/ ProcessAllEdges
    \/ ConstructAgain

SpecRun == InitRun /\ [][NextRun]_vars

\* Both the batch functions on their own, with every batch size, and the
\* pipeline runs that call them with their default batch sizes
NextAbort == NextBatch \/ NextRun

SpecAbort == (InitBatch \/ InitRun) /\ [][NextAbort]_vars

-----------------------------------------------------------------------------
(* Properties of the pipeline runs (SpecRun, SpecAbort) *)

RunState == call.op \in RunOps

Range(l) == { l[k] : k \in 1..Len(l) }

\* The position of the latest construction among the effects, 0 before the
\* second classifier is constructed
LatestConstruction ==
    IF Constructions = <<>> THEN 0
    ELSE CHOOSE p \in 1..Len(effects) :
             /\ effects[p].event = "__init__"
             /\ \A q \in (p + 1)..Len(effects) : effects[q].event # "__init__"

\* What the run under way has done so far, and what the run before it did
CurrentRun == SubSeq(effects, LatestConstruction + 1, Len(effects))
FirstRun == SubSeq(effects, 1, LatestConstruction - 1)

Writes(events) == SelectSeq(events, LAMBDA ev : ev.event = "write")

\* The call of the retry wrapper ended in an error
WrapperFailed(ev) ==
    /\ ev.event = "api_request_with_retry"
    /\ ev.attempts[Len(ev.attempts)].outcome.kind # "ok"

\* The error the call of the retry wrapper ended in
WrapperError(ev) == ev.attempts[Len(ev.attempts)].outcome

\* C15: a normalization or synonym batch that fails, at once or after its
\* retries, aborts: batch_get_normalized_nodes / batch_get_synonyms raise the
\* error instead of returning results, the failed batch is the last thing they
\* requested and every batch before it was the next piece of the input; in a
\* pipeline run the failed batch is the last thing the run does: the run has
\* ended with that error, no edge was classified or written, and the output
\* files do not exist.
C15_FailedBatchAborts ==
    /\ BatchReturned =>
           LET trace == result.trace
               sent == WrapperCalls
           IN  /\ (result.status = "raised") <=> (\E k \in 1..Len(trace) : WrapperFailed(trace[k]))
               /\ \A k \in 1..Len(trace) :
                      WrapperFailed(trace[k]) =>
                          /\ k = Len(trace)
                          /\ result.value = WrapperError(trace[k])
                          /\ Concatenation(sent, Len(sent)) =
                                 Slice(call.all_curies, 0, Len(sent) * call.batch_size)
    /\ RunState =>
           \A k \in 1..Len(CurrentRun) :
               WrapperFailed(CurrentRun[k]) =>
                   /\ k = Len(CurrentRun)
                   /\ pc = "raised"
                   /\ result = [status |-> "raised", value |-> WrapperError(CurrentRun[k])]
                   /\ Writes(CurrentRun) = <<>>
                   /\ output_files = NoOutputFiles

\* C15 witness: run() loaded two edges and normalized their entities; the
\* synonym request failed four times with a server error, and the run ended
\* there with nothing written.
C15_Witness ==
    /\ call.op = "run"
    /\ pc = "raised"
    /\ Len(edges) = 2
    /\ DOMAIN normalized_entities = {"A", "B"}
    /\ Len(CurrentRun) = 2
    /\ CurrentRun[2].func = "get_synonyms"
    /\ WrapperFailed(CurrentRun[2])
    /\ Len(CurrentRun[2].attempts) = 2 * DefaultMaxRetries + 1
    /\ output_files = NoOutputFiles

\* C16: a name lookup that fails while the edges are processed, the bulk
\* request or a single one, ends the run with the error: nothing is written
\* after it and the processing does not return counts.
C16_LookupFailureIsFatal ==
    RunState =>
        \A k \in 1..Len(CurrentRun) :
            (/\ CurrentRun[k].event \in {"bulk_lookup_names", "lookup_names"}
             /\ CurrentRun[k].status = ApiError.status) =>
                /\ pc = "raised"
                /\ \A later \in (k + 1)..Len(CurrentRun) : CurrentRun[later].event # "write"

\* The rows of the three output files, and where a loaded edge was written
OutputFileNames == {"good", "bad", "ambiguous"}

RowsOf(edge) ==
    { place \in { <<file, j>> : file \in OutputFileNames, j \in 1..MaxEdges } :
        /\ place[2] <= Len(output_files[place[1]])
        /\ output_files[place[1]][place[2]].edge_id = edge.edge_id }

RECURSIVE SumOf(_)
SumOf(counts) ==
    IF DOMAIN counts = {} THEN 0
    ELSE LET c == CHOOSE k \in DOMAIN counts : TRUE
         IN  counts[c] + SumOf([k \in DOMAIN counts \ {c} |-> counts[k]])

\* C17: when process_all_edges or process_all_edges_batched has returned, one
\* row was written per loaded edge; every loaded edge is in exactly one row of
\* the three output files, unchanged, in the file named by the row's
\* qc_classification; the count returned for a classification is the number of
\* rows of its file, and the counts add up to the number of loaded edges.
C17_EveryEdgeWrittenOnce ==
    (RunState /\ pc = "finished") =>
        /\ Len(Writes(CurrentRun)) = Len(edges)
        /\ \A k \in 1..Len(edges) :
               /\ Cardinality(RowsOf(edges[k])) = 1
               /\ \A place \in RowsOf(edges[k]) :
                      LET row == output_files[place[1]][place[2]]
                      IN  /\ row.qc_classification = place[1]
                          /\ \A field \in DOMAIN edges[k] : row[field] = edges[k][field]
        /\ Len(output_files.good) + Len(output_files.bad) + Len(output_files.ambiguous)
               = Len(edges)
        /\ DOMAIN result.value \subseteq OutputFileNames
        /\ \A file \in OutputFileNames :
               DictGet(result.value, file, 0) = Len(output_files[file])
        /\ SumOf(result.value) = Len(edges)

\* C17 witness: process_all_edges_batched processed two edges in two batches,
\* one was written to the good file and one to the bad file.
C17_Witness ==
    /\ call.op = "process_all_edges_batched"
    /\ call.batch_size = 1
    /\ pc = "finished"
    /\ Len(edges) = 2
    /\ Len(output_files.good) = 1
    /\ Len(output_files.bad) = 1
    /\ output_files.good[1].edge_id = edges[1].edge_id
    /\ result.value = ("good" :> 1) @@ ("bad" :> 1)

\* A row without its edge_id
WithoutEdgeId(row) == [field \in DOMAIN row \ {"edge_id"} |-> row[field]]

\* The rows a sequence of events wrote to a file, in order
RowsWritten(events, file) ==
    LET written == SelectSeq(events, LAMBDA ev : ev.event = "write" /\ ev.file = file)
    IN  [j \in 1..Len(written) |-> written[j].row]

\* C18: when run() has ended a second time, on the same corpus with the same
\* service answers and in the output directory of the first run, the second run
\* has written the rows of the first run again, to the same files in the same
\* order and equal but for the edge ids, and the output files hold the rows of
\* the second run only.
C18_SecondRunSameClassification ==
    (RunState /\ Constructions # <<>> /\ pc \in {"finished", "raised"}) =>
        \A file \in OutputFileNames :
            LET first == RowsWritten(FirstRun, file)
                second == RowsWritten(CurrentRun, file)
            IN  /\ Len(first) = Len(second)
                /\ \A j \in 1..Len(first) : WithoutEdgeId(first[j]) = WithoutEdgeId(second[j])
                /\ output_files[file] = second

\* C18 witness: the first run wrote a good and a bad edge; the second run found
\* those files, and has written both edges again under other edge ids.
C18_Witness ==
    /\ call.op = "run"
    /\ pc = "finished"
    /\ Constructions # <<>>
    /\ Len(Constructions[1].found.good) = 1
    /\ Len(Constructions[1].found.bad) = 1
    /\ Len(output_files.good) = 1
    /\ Len(output_files.bad) = 1
    /\ output_files.good[1].edge_id # Constructions[1].found.good[1].edge_id

\* The positions of the batches of process_all_edges_batched in the events, and
\* the bulk lookup requests of the batch that starts at a position
BatchStarts == { p \in 1..Len(effects) : effects[p].event = "batch" }

BulkRequests(p) ==
    { q \in (p + 1)..Len(effects) :
        /\ effects[q].event = "bulk_lookup_names"
        /\ \A between \in (p + 1)..q : effects[between].event # "batch" }

\* The synonym names of the subject and object of the batch's edges that occur
\* as a whole word in the text of their edge
NamesInText(batch) ==
    UNION { Range(MatchedNames(batch[k], role)) : k \in 1..Len(batch), role \in Roles }

\* C19: process_all_edges_batched sends at most one bulk lookup request per
\* batch, and the strings it sends for a batch are exactly the synonym names
\* of the subject and object entities of the batch's edges that whole-word
\* match the text of their edge.
C19_BulkLookupOfMatchedNames ==
    (RunState /\ pc = "finished" /\ Constructions = <<>>) =>
        \A p \in BatchStarts :
            /\ Cardinality(BulkRequests(p)) <= 1
            /\ UNION { effects[q].strings : q \in BulkRequests(p) }
                   = NamesInText(effects[p].edges)

-----------------------------------------------------------------------------
(* Properties of the lookup requests (SpecRun) *)

LookupRequests ==
    { k \in 1..Len(effects) : effects[k].event \in {"lookup_names", "bulk_lookup_names"} }

\* The strings a request asks for
Queries(ev) == IF ev.event = "bulk_lookup_names" THEN ev.strings ELSE {ev.query}

\* The normalizer types the entity as a gene
IsGene(curie) == BiolinkGene \in Range(NormalizedGet(normalized_entities, curie).type)

\* The strings the classifier takes for the synonyms of an entity: the names
\* under its preferred identifier in process_all_edges, and what it iterates
\* under the CURIE of the edge in process_all_edges_batched
SynonymsTaken(curie) ==
    IF call.op = "process_all_edges"
    THEN Range(SynonymNames(DictGet(synonyms_data,
                                    NormalizedGet(normalized_entities, curie).identifier,
                                    EmptySynonymSet)))
    ELSE Range(DictGet(synonyms_data, curie, EmptySynonymSet).keys)

IssuedForGene(ev) ==
    \E k \in 1..Len(edges) : \E curie \in {edges[k].subject, edges[k].object} :
        IsGene(curie) /\ Queries(ev) \cap SynonymsTaken(curie) # {}

\* C21: every lookup request for a synonym of a gene-typed entity is
\* restricted to the human taxon, on the per-synonym path and on the batched
\* path with its fallback, and a request for other entities carries no taxon
\* filter.
C21_GeneLookupsHumanOnly ==
    (RunState /\ pc = "finished") =>
        \A k \in LookupRequests :
            effects[k].only_taxa =
                IF IssuedForGene(effects[k]) THEN <<HumanTaxon>> ELSE NoTaxa

\* The same on the per-synonym path alone
PerSynonymLookupsHumanOnly ==
    call.op = "process_all_edges" => C21_GeneLookupsHumanOnly

-----------------------------------------------------------------------------
(* Properties of the batches (SpecRun) *)

BatchedOps == {"run", "process_all_edges_batched"}

\* Which edge went to which file
Classifications(files) ==
    UNION { { <<files[file][j].edge_id, file>> : j \in 1..Len(files[file]) } :
              file \in OutputFileNames }

\* The batches of the run under way
CurrentBatchStarts == { p \in BatchStarts : p > LatestConstruction }

\* The classification of an edge that is processed in a batch of its own
ClassifiedAlone(edge) ==
    classify_edge_with_cache(
        edge,
        execute_bulk_lookups(collect_all_synonyms_from_batch(<<edge>>),
                             call.world).lookup_cache).classification

\* C22: whatever the batch size, process_all_edges_batched puts every edge in
\* the file it gets when it is processed in a batch of its own, the service
\* responses being the same, so that two batch sizes classify every edge
\* alike; and the cache used for a batch holds the strings requested for this
\* batch and nothing else, and decides the classification of the batch's edges.
C22_BatchSizeDoesNotMatter ==
    (RunState /\ pc = "finished" /\ call.op \in BatchedOps) =>
        /\ Classifications(output_files)
               = { <<edges[k].edge_id, ClassifiedAlone(edges[k])>> : k \in 1..Len(edges) }
        /\ \A p \in CurrentBatchStarts :
               /\ DOMAIN effects[p].lookup_cache
                      = UNION { effects[q].strings : q \in BulkRequests(p) }
               /\ \A k \in 1..Len(effects[p].edges) :
                      <<effects[p].edges[k].edge_id,
                        classify_edge_with_cache(effects[p].edges[k],
                                                 effects[p].lookup_cache).classification>>
                          \in Classifications(output_files)

\* C22 witness: two edges were processed in two batches of one edge; the first
\* batch needed no lookup, the second looked up a string with two candidates
\* and its edge was found ambiguous.
C22_Witness ==
    /\ call.op = "process_all_edges_batched"
    /\ call.batch_size = 1
    /\ pc = "finished"
    /\ Len(edges) = 2
    /\ Cardinality(BatchStarts) = 2
    /\ \E p \in BatchStarts : DOMAIN effects[p].lookup_cache = {}
    /\ \E p \in BatchStarts :
           \E s \in DOMAIN effects[p].lookup_cache : Len(effects[p].lookup_cache[s]) = 2
    /\ Len(output_files.bad) = 2
    /\ "subject_ambiguous" \in DOMAIN output_files.bad[2].qc_debug
    /\ output_files.bad[2].qc_debug.subject_ambiguous

-----------------------------------------------------------------------------
(* Properties of the debug trace (SpecClassify) *)

\* The keys of the debug trace for a role
FoundKey(role) ==
    IF role = "subject" THEN "subject_synonyms_found" ELSE "object_synonyms_found"
AmbiguousKey(role) == IF role = "subject" THEN "subject_ambiguous" ELSE "object_ambiguous"
LookupDataKey(role) ==
    IF role = "subject" THEN "subject_lookup_data" ELSE "object_lookup_data"

\* classify_edge_with_cache went on to match the synonyms against the text
ReachedTextMatching ==
    /\ CachedClassifierReturned
    /\ DebugGet("reason", "") \notin {NoSupportingText, MissingSynonyms}

\* C23: for every edge that reaches text matching the debug trace of
\* classify_edge_with_cache holds, for each role, the list of synonyms found in
\* the text (empty when none is found), the role's ambiguity flag and the
\* role's candidate list.
C23_DebugTraceComplete ==
    ReachedTextMatching =>
        \A role \in Roles :
            /\ FoundKey(role) \in DOMAIN result.debug_info
            /\ \A k \in 1..Len(FoundReported(role)) :
                   OccursAsWholeWord(FoundReported(role)[k], call.edge.sentences)
            /\ AmbiguousKey(role) \in DOMAIN result.debug_info
            /\ LookupDataKey(role) \in DOMAIN result.debug_info

\* The part the code does keep: a role with a synonym found in the text has
\* its found list and its flag in the trace
FoundRolesTraced ==
    ReachedTextMatching =>
        \A role \in Roles :
            (FoundKey(role) \in DOMAIN result.debug_info) =>
                /\ FoundReported(role) # <<>>
                /\ AmbiguousKey(role) \in DOMAIN result.debug_info

-----------------------------------------------------------------------------
(* Further properties of the text matcher (SpecMatch) *)

\* C24: find_synonyms_in_text returns a list without duplicates whose every
\* element is one of the candidates, also when a string occurs more than once
\* among the candidates.
C24_UniqueSubsetOfCandidates ==
    MatcherReturned =>
        /\ \A i \in 1..Len(result) : result[i] \in Range(call.synonyms)
        /\ \A i \in 1..Len(result) : \A j \in 1..Len(result) :
               i # j => result[i] # result[j]

\* The part that holds: every returned string is one of the candidates
ReturnedAreCandidates ==
    MatcherReturned => \A i \in 1..Len(result) : result[i] \in Range(call.synonyms)

\* A candidate without whitespace in it
IsToken(c) == c # None /\ c # <<>> /\ \A k \in 1..Len(c) : c[k] \notin Whitespace

\* The occurrence of c at index i of t is a complete token: whitespace or an
\* end of the text on both sides
TokenAt(c, t, i) ==
    /\ OccursAt(c, t, i)
    /\ i = 1 \/ t[i - 1] \in Whitespace
    /\ i + Len(c) > Len(t) \/ t[i + Len(c)] \in Whitespace

\* C30: find_synonyms_in_text returns every non-empty candidate that occurs in
\* the text as a complete token, delimited by whitespace or by the start or
\* end of the text and compared case-insensitively, also when the candidate
\* begins or ends with a character that is neither a letter nor a digit.
C30_CompleteTokensReturned ==
    (MatcherReturned /\ call.text # None) =>
        \A k \in 1..Len(call.synonyms) :
            (/\ IsToken(call.synonyms[k])
             /\ \E i \in 1..Len(call.text) : TokenAt(call.synonyms[k], call.text, i))
                => call.synonyms[k] \in Range(result)

\* The same for the candidates that begin and end with a letter
WordTokensReturned ==
    (MatcherReturned /\ call.text # None) =>
        \A k \in 1..Len(call.synonyms) :
            (/\ IsToken(call.synonyms[k])
             /\ IsWordChar(call.synonyms[k][1])
             /\ IsWordChar(call.synonyms[k][Len(call.synonyms[k])])
             /\ \E i \in 1..Len(call.text) : TokenAt(call.synonyms[k], call.text, i))
                => call.synonyms[k] \in Range(result)

-----------------------------------------------------------------------------
(* Specification of load_data: a constructed classifier reads the nodes file  *)
(* and the edges file, with or without max_edges                              *)

\* self.nodes after the lines of the nodes file from the k-th on: the node of
\* a line is stored under its id, a later line of the same id replaces it
RECURSIVE NodesLoop(_, _, _)
NodesLoop(lines, k, nodes) ==
    IF k > Len(lines) THEN nodes
    ELSE NodesLoop(lines, k + 1,
                   DictSet(nodes, lines[k].id,
                           [has_name |-> lines[k].has_name, name |-> lines[k].name]))

load_nodes(lines) == NodesLoop(lines, 1, EmptyDict)

\* max_edges as load_data tests it: None when the argument is not given
MaxEdgesArgument(given, value) == IF given THEN value ELSE NoLimit

\* Lines of the nodes file: A with a name, A again under another name, B
\* without a name
NodeLines ==
    { [id |-> "A", has_name |-> TRUE, name |-> "alpha"],
      [id |-> "A", has_name |-> TRUE, name |-> "alfa"],
      [id |-> "B", has_name |-> FALSE, name |-> ""] }

LoadCalls ==
    { [op |-> "load_data", corpus |-> corpus, nodes_file |-> nodes_file,
       max_edges_given |-> limit[1], max_edges |-> limit[2]] :
        corpus \in RunCorpora, nodes_file \in ListsUpTo(NodeLines, MaxEdges),
        limit \in {<<FALSE, NoLimit>>} \cup { <<TRUE, n>> : n \in 0..(MaxEdges + 1) } }

InitLoad ==
    /\ pc = "constructed"
    /\ call \in LoadCalls
    /\ result = <<>>
    /\ normalized_entities = EmptyDict
    /\ synonyms_data = EmptyDict
    /\ edges = <<>>
    /\ output_files = NoOutputFiles
    /\ effects = <<>>
    /\ current_indices = EmptyDict

\* load_data(max_edges); result holds self.nodes
LoadData ==
    /\ pc = "constructed"
    /\ call.op = "load_data"
    /\ result' = [status |-> "returned", nodes |-> load_nodes(call.nodes_file)]
    /\ \E uuid \in Uuids :
           edges' = load_data(call.corpus,
                              MaxEdgesArgument(call.max_edges_given, call.max_edges), uuid)
    /\ pc' = "loaded"
    /\ UNCHANGED <<call, normalized_entities, synonyms_data, output_files, effects>>
    /\ UNCHANGED current_indices

NextLoad == LoadData

SpecLoad == InitLoad /\ [][NextLoad]_vars

-----------------------------------------------------------------------------
(* Properties of load_data (SpecLoad) *)

DataLoaded == pc = "loaded" /\ call.op = "load_data"

Min(a, b) == IF a <= b THEN a ELSE b

\* The loaded edges are the first n lines of the edges file, in file order
FirstLinesLoaded(n) ==
    /\ Len(edges) = n
    /\ \A k \in 1..Len(edges) : WithoutEdgeId(edges[k]) = call.corpus[k]

\* Every node of the nodes file is loaded
AllNodesLoaded ==
    /\ DOMAIN result.nodes = { call.nodes_file[k].id : k \in 1..Len(call.nodes_file) }
    /\ \A k \in 1..Len(call.nodes_file) :
           (\A later \in (k + 1)..Len(call.nodes_file) :
                call.nodes_file[later].id # call.nodes_file[k].id)
               => /\ result.nodes[call.nodes_file[k].id].has_name = call.nodes_file[k].has_name
                  /\ result.nodes[call.nodes_file[k].id].name = call.nodes_file[k].name

\* C25: load_data(max_edges = N) loads exactly the first min(N, number of
\* lines) edges of the edges file in file order for every integer N >= 0,
\* never more than N; without max_edges it loads all edges; and it always
\* loads all nodes.
C25_LoadsFirstMaxEdges ==
    DataLoaded =>
        /\ call.max_edges_given =>
               /\ FirstLinesLoaded(Min(call.max_edges, Len(call.corpus)))
               /\ Len(edges) <= call.max_edges
        /\ ~call.max_edges_given => FirstLinesLoaded(Len(call.corpus))
        /\ AllNodesLoaded

\* The same for every N >= 1
LoadsFirstPositiveMaxEdges ==
    (DataLoaded /\ ~(call.max_edges_given /\ call.max_edges = 0)) => C25_LoadsFirstMaxEdges

-----------------------------------------------------------------------------
(* Specification of run() on corpora whose edges share entities and whose     *)
(* entities share preferred identifiers or are not normalized                 *)

\* Lines of the edges file: B is in two lines, C is subject and object of one
PipelineEdgeLines ==
    { [subject |-> "A", object |-> "B", sentences |-> NamesKey],
      [subject |-> "B", object |-> "C", sentences |-> Words(foo, bar)],
      [subject |-> "C", object |-> "C", sentences |-> NA] }

\* The normalizer keeps A or maps it to P, keeps B or answers null for it, and
\* maps C to B or has no entry for it
PipelineNormalizers ==
    { a @@ b @@ c :
        a \in { "A" :> Normalized("A", <<BiolinkGene>>),
                "A" :> Normalized("P", <<BiolinkGene>>) },
        b \in { "B" :> Normalized("B", <<BiolinkSmallMolecule>>), "B" :> NullEntity },
        c \in { "C" :> Normalized("B", <<BiolinkSmallMolecule>>), EmptyDict } }

\* The normalizer request or the synonym request takes one of the courses
PipelineFaults ==
    { [normalizer |-> c, synonyms |-> AllSucceed] : c \in RequestCourses } \cup
    { [normalizer |-> AllSucceed, synonyms |-> c] : c \in RequestCourses }

PipelineCalls ==
    { [op |-> "run", batch_size |-> DefaultEdgeBatchSize, corpus |-> corpus,
       max_edges |-> max_edges, normalizer |-> normalizer,
       normalizer_courses |-> <<fault.normalizer>>,
       synonyms |-> RunSynonymService, synonyms_courses |-> <<fault.synonyms>>,
       world |-> [lookup_results |-> lookup_results, bulk_fails |-> FALSE,
                  lookup_fails |-> FALSE, nodes |-> RunNodes]] :
        corpus \in ListsUpTo(PipelineEdgeLines, MaxEdges), max_edges \in {NoLimit, 1},
        normalizer \in PipelineNormalizers, fault \in PipelineFaults,
        lookup_results \in RunLookupResults }

InitPipeline ==
    /\ pc = "constructed"
    /\ call \in PipelineCalls
    /\ result = <<>>
    /\ normalized_entities = EmptyDict
    /\ synonyms_data = EmptyDict
    /\ edges = <<>>
    /\ output_files = NoOutputFiles
    /\ effects = <<>>
    /\ current_indices = EmptyDict

NextPipeline ==
    \/ RunLoadData
    \/ RunNormalizeEntities
    \/ RunGetAllSynonyms
    \/ ProcessAllEdgesBatched

SpecPipeline == InitPipeline /\ [][NextPipeline]_vars

-----------------------------------------------------------------------------
(* Properties of the preparation of a run (SpecPipeline) *)

\* The positions of the calls of the retry wrapper for a request function, and
\* of what is done to classify and write the edges
WrapperPositions(func) ==
    { k \in 1..Len(effects) :
        effects[k].event = "api_request_with_retry" /\ effects[k].func = func }

ProcessingPositions ==
    { k \in 1..Len(effects) :
        effects[k].event \in {"batch", "bulk_lookup_names", "lookup_names", "write"} }

\* The identifiers sent by the calls at the positions: every identifier of the
\* set is sent once, and nothing else is sent
SentOnce(positions, identifiers) ==
    /\ Cardinality(positions) = IF identifiers = {} THEN 0 ELSE 1
    /\ \A k \in positions :
           /\ Range(effects[k].batch) = identifiers
           /\ Len(effects[k].batch) = Cardinality(identifiers)

\* The CURIEs of the loaded edges
EdgeCuries ==
    { edges[k].subject : k \in 1..Len(edges) } \cup { edges[k].object : k \in 1..Len(edges) }

\* The preferred identifiers of the normalization results that are not null
PreferredIdentifiers ==
    { normalized_entities[curie].identifier :
        curie \in { c \in DOMAIN normalized_entities : ~normalized_entities[c].null } }

\* C26: in run() the normalizer is asked once, for the CURIEs of the subjects
\* and objects of the loaded edges without duplicates; then the synonym service
\* is asked once, for the preferred identifiers of the normalization results
\* that are not null, without duplicates; and both requests have succeeded
\* before an edge is classified or written.
C26_PrepareOnceBeforeProcessing ==
    call.op = "run" =>
        /\ pc \in {"normalized", "ready", "finished"} =>
               SentOnce(WrapperPositions("get_normalized_nodes"), EdgeCuries)
        /\ pc \in {"ready", "finished"} =>
               SentOnce(WrapperPositions("get_synonyms"), PreferredIdentifiers)
        /\ \A n \in WrapperPositions("get_normalized_nodes") :
               /\ \A y \in WrapperPositions("get_synonyms") : n < y
               /\ \A q \in ProcessingPositions : n < q /\ ~WrapperFailed(effects[n])
        /\ \A y \in WrapperPositions("get_synonyms") :
               \A q \in ProcessingPositions : y < q /\ ~WrapperFailed(effects[y])
        /\ ProcessingPositions # {} => pc = "finished"

\* C26 witness: run() has written two edges that share the entity B; the
\* normalizer was asked for A, B and C after a retry, B and C have the same
\* preferred identifier, and the synonym service was asked for two identifiers.
C26_Witness ==
    /\ call.op = "run"
    /\ pc = "finished"
    /\ Len(edges) = 2
    /\ EdgeCuries = {"A", "B", "C"}
    /\ "C" \in DOMAIN normalized_entities
    /\ ~normalized_entities["B"].null
    /\ normalized_entities["B"].identifier = normalized_entities["C"].identifier
    /\ \E n \in WrapperPositions("get_normalized_nodes") : Len(effects[n].attempts) > 1
    /\ \E y \in WrapperPositions("get_synonyms") : Len(effects[y].batch) = 2
    /\ Len(Writes(effects)) = 2

-----------------------------------------------------------------------------
(* Properties of the output files (SpecRun) *)

\* The place of a row's edge among the loaded edges
InputPosition(row) == CHOOSE k \in 1..Len(edges) : edges[k].edge_id = row.edge_id

\* C27: at every moment of a run each output file holds the rows written to it
\* so far, in the order of the writes: a write appended its row to the one file
\* it names and changed no row written before; and the rows of each file stand
\* in the order of their edges in the input, whatever the batch size.
C27_AppendOnlyInInputOrder ==
    RunState =>
        /\ \A k \in 1..Len(CurrentRun) :
               CurrentRun[k].event = "write" => CurrentRun[k].file \in OutputFileNames
        /\ \A file \in OutputFileNames :
               /\ output_files[file] = RowsWritten(CurrentRun, file)
               /\ \A i \in 1..Len(output_files[file]) : \A j \in 1..Len(output_files[file]) :
                      i < j => InputPosition(output_files[file][i])
                                   < InputPosition(output_files[file][j])

\* C27 witness: process_all_edges_batched has written two edges in two batches
\* to the file of the good edges, the first edge of the input first.
C27_Witness ==
    /\ call.op = "process_all_edges_batched"
    /\ call.batch_size = 1
    /\ pc = "finished"
    /\ Len(edges) = 2
    /\ Len(output_files.good) = 2
    /\ output_files.good[1].edge_id = edges[1].edge_id
    /\ output_files.good[2].edge_id = edges[2].edge_id
    /\ Len(Writes(CurrentRun)) = 2

-----------------------------------------------------------------------------
(* Properties of edges with missing evidence (SpecClassify, SpecRun) *)

\* No synonym name of one of the roles occurs in the text of the edge
EvidenceMissing(edge) == \E role \in Roles : MatchedNames(edge, role) = <<>>

\* classify_edge consulted the name resolver: it stores the lookup data of
\* both roles right after it did
LookupsIssued ==
    \E role \in Roles : LookupDataKey(role) \in DOMAIN result.debug_info

\* C28: an edge in which a role has no synonym matching the text is classified
\* 'bad', never 'ambiguous', whatever the candidates of the other role's
\* synonyms are; and classify_edge issues no lookup for it.
C28_MissingEvidenceIsBad ==
    ClassifierReturned =>
        (EvidenceMissing(call.edge) =>
            /\ result.classification = "bad"
            /\ call.op = "classify_edge" => ~LookupsIssued)

\* The same for classify_edge alone
ClassifyEdgeMissingEvidenceIsBad ==
    call.op = "classify_edge" => C28_MissingEvidenceIsBad

\* With missing evidence classify_edge_with_cache never answers 'ambiguous'
CachedMissingEvidenceNeverAmbiguous ==
    (CachedClassifierReturned /\ EvidenceMissing(call.edge)) =>
        result.classification # "ambiguous"

\* classify_edge_with_cache answers 'bad' whenever its own search of the text
\* came back empty for a role
CachedNothingFoundIsBad ==
    CachedClassifierReturned =>
        \A role \in Roles :
            (/\ FoundKey(role) \in DOMAIN result.debug_info
             /\ result.debug_info[FoundKey(role)] = <<>>)
                => result.classification = "bad"

\* In process_all_edges no lookup_names request is made for an edge with
\* missing evidence: the requests of a run are those of the edges with a
\* matched name for both roles
NoLookupWithoutEvidence ==
    (RunState /\ call.op = "process_all_edges" /\ pc = "finished") =>
        { effects[k].query : k \in LookupRequests }
            \subseteq UNION { Range(MatchedNames(edges[k], "subject"))
                                \cup Range(MatchedNames(edges[k], "object")) :
                              k \in { n \in 1..Len(edges) : ~EvidenceMissing(edges[n]) } }

-----------------------------------------------------------------------------
(* Specification of the EdgeReviewer of the web application: a reviewer    *)
(* built on the output directory serves calls while classifier runs clear  *)
(* and fill the output files.                                              *)

\* Most rows a classifier run leaves in the output directory
MaxReviewEdges == 2

\* The classifications the routes accept, and one they reject but the methods
\* take
ReviewClassifications == {"good", "bad", "ambiguous"}
CalledClassifications == ReviewClassifications \cup {"other"}

\* The indices asked for: below, inside and above every list
RequestedIndices == (0 - 1)..(MaxReviewEdges + 1)

\* The n-th edge a classifier run writes
ReviewedEdge(n) ==
    [edge_id |-> <<"u", n>>, subject |-> "A", object |-> "B", sentences |-> NA]

\* load_edges_from_file: the rows of the file, none when it does not exist
load_edges_from_file(files, filename) == files[filename]

\* load_all_edges: the three lists are read again; current_indices is not
\* touched
load_all_edges(files) ==
    [classification \in ReviewClassifications |->
        load_edges_from_file(files, OutputFileFor(classification))]

\* get_edge_by_index: the edge at a 0-based index, or None
get_edge_by_index(reviewer_edges, classification, index) ==
    LET edges_list == DictGet(reviewer_edges, classification, <<>>)
    IN  IF 0 <= index /\ index < Len(edges_list) THEN edges_list[index + 1] ELSE None

\* get_current_edge
get_current_edge(reviewer_edges, indices, classification) ==
    get_edge_by_index(reviewer_edges, classification, DictGet(indices, classification, 0))

\* max(0, min(index, max_index))
Clamp(index, max_index) ==
    LET lower == IF index < max_index THEN index ELSE max_index
    IN  IF lower > 0 THEN lower ELSE 0

\* set_current_index: the indices afterwards
set_current_index(reviewer_edges, indices, classification, index) ==
    LET max_index == Len(DictGet(reviewer_edges, classification, <<>>)) - 1
    IN  DictSet(indices, classification, Clamp(index, max_index))

\* next_edge: the answer and the indices afterwards
next_edge(reviewer_edges, indices, classification) ==
    LET current_idx == DictGet(indices, classification, 0)
        max_idx == Len(DictGet(reviewer_edges, classification, <<>>)) - 1
    IN  IF current_idx < max_idx
        THEN [value |-> TRUE, indices |-> DictSet(indices, classification, current_idx + 1)]
        ELSE [value |-> FALSE, indices |-> indices]

\* prev_edge: the answer and the indices afterwards
prev_edge(indices, classification) ==
    LET current_idx == DictGet(indices, classification, 0)
    IN  IF current_idx > 0
        THEN [value |-> TRUE, indices |-> DictSet(indices, classification, current_idx - 1)]
        ELSE [value |-> FALSE, indices |-> indices]

\* EdgeReviewer("output") on an output directory without files
InitReviewer ==
    /\ pc = "constructed"
    /\ call = [op |-> "__init__"]
    /\ result = <<>>
    /\ normalized_entities = EmptyDict
    /\ synonyms_data = EmptyDict
    /\ output_files = NoOutputFiles
    /\ edges = load_all_edges(output_files)
    /\ current_indices = [classification \in ReviewClassifications |-> 0]
    /\ effects = <<>>

\* A classifier is constructed on the output directory: the files are removed
ClassifierConstructed ==
    /\ output_files # NoOutputFiles
    /\ output_files' = ClearOutputFiles(output_files)
    /\ UNCHANGED <<pc, call, result, normalized_entities, synonyms_data,
                   edges, current_indices, effects>>

\* The classifier writes the row of its next edge
ClassifierWrites ==
    LET written == Len(output_files.good) + Len(output_files.bad)
                       + Len(output_files.ambiguous)
    IN  /\ written < MaxReviewEdges
        /\ \E classification \in ReviewClassifications :
               output_files' = write_edge_result(ReviewedEdge(written + 1), classification,
                                                 EmptyDict, EmptyDict, output_files)
        /\ UNCHANGED <<pc, call, result, normalized_entities, synonyms_data,
                       edges, current_indices, effects>>

LoadAllEdges ==
    /\ edges' = load_all_edges(output_files)
    /\ call' = [op |-> "load_all_edges"]
    /\ result' = None
    /\ pc' = "returned"
    /\ UNCHANGED <<normalized_entities, synonyms_data, current_indices,
                   output_files, effects>>

SetCurrentIndex ==
    /\ \E classification \in CalledClassifications : \E index \in RequestedIndices :
           /\ call' = [op |-> "set_current_index", classification |-> classification,
                       index |-> index]
           /\ current_indices' = set_current_index(edges, current_indices,
                                                   classification, index)
    /\ result' = None
    /\ pc' = "returned"
    /\ UNCHANGED <<normalized_entities, synonyms_data, edges, output_files, effects>>

NextEdge ==
    /\ \E classification \in CalledClassifications :
           LET moved == next_edge(edges, current_indices, classification)
           IN  /\ call' = [op |-> "next_edge", classification |-> classification]
               /\ current_indices' = moved.indices
               /\ result' = moved.value
    /\ pc' = "returned"
    /\ UNCHANGED <<normalized_entities, synonyms_data, edges, output_files, effects>>

PrevEdge ==
    /\ \E classification \in CalledClassifications :
           LET moved == prev_edge(current_indices, classification)
           IN  /\ call' = [op |-> "prev_edge", classification |-> classification]
               /\ current_indices' = moved.indices
               /\ result' = moved.value
    /\ pc' = "returned"
    /\ UNCHANGED <<normalized_entities, synonyms_data, edges, output_files, effects>>

GetCurrentEdge ==
    /\ \E classification \in CalledClassifications :
           /\ call' = [op |-> "get_current_edge", classification |-> classification]
           /\ result' = get_current_edge(edges, current_indices, classification)
    /\ pc' = "returned"
    /\ UNCHANGED <<normalized_entities, synonyms_data, edges, current_indices,
                   output_files, effects>>

NextReviewer ==
    \/ ClassifierConstructed
    \/ ClassifierWrites
    \/ LoadAllEdges
    \/ SetCurrentIndex
    \/ NextEdge
    \/ PrevEdge
    \/ GetCurrentEdge

SpecReviewer == InitReviewer /\ [][NextReviewer]_vars

-----------------------------------------------------------------------------
(* Properties of the reviewer's cursor (SpecReviewer) *)

\* The index of a classification, as the methods read it
CurrentIndex(indices, classification) == DictGet(indices, classification, 0)

\* The index of a classification with edges points at one of them
CursorInRange(classification) ==
    Len(edges[classification]) > 0 =>
        /\ 0 <= CurrentIndex(current_indices, classification)
        /\ CurrentIndex(current_indices, classification) < Len(edges[classification])

\* C29: whatever was called, for every classification with a non-empty edge
\* list the current index is inside the list, and get_current_edge answers
\* with an edge.
C29_CursorInvariant ==
    /\ \A classification \in ReviewClassifications : CursorInRange(classification)
    /\ (call.op = "get_current_edge" /\ call.classification \in ReviewClassifications
            /\ Len(edges[call.classification]) > 0)
           => result # None

\* After set_current_index the index of its classification is inside the list
SetCurrentIndexInRange ==
    (call.op = "set_current_index" /\ call.classification \in ReviewClassifications)
        => CursorInRange(call.classification)

\* Only a reload takes the cursor of a classification out of its list
CursorInRangeUntilReload ==
    [][((\A classification \in ReviewClassifications : CursorInRange(classification))
            /\ edges' = edges)
       => (\A classification \in ReviewClassifications : CursorInRange(classification))']_vars

\* With the cursor inside the list get_current_edge answers with the edge at
\* the cursor
GetCurrentEdgeAnswers ==
    (/\ call.op = "get_current_edge"
     /\ call.classification \in ReviewClassifications
     /\ Len(edges[call.classification]) > 0
     /\ CursorInRange(call.classification))
        => /\ result # None
           /\ result = edges[call.classification][current_indices[call.classification] + 1]

\* next_edge and prev_edge answer True exactly when they moved the index of
\* their classification by one, and leave it alone otherwise
NextPrevMoveByOne ==
    [][/\ NextEdge =>
            LET before == CurrentIndex(current_indices, call'.classification)
                after == CurrentIndex(current_indices', call'.classification)
            IN  IF result' THEN after = before + 1 ELSE after = before
       /\ PrevEdge =>
            LET before == CurrentIndex(current_indices, call'.classification)
                after == CurrentIndex(current_indices', call'.classification)
            IN  IF result' THEN after = before - 1 ELSE after = before]_vars

\* No call changes the index of a classification other than its own, and a
\* reload or a lookup of the current edge changes none
OtherIndicesUntouched ==
    [][/\ (SetCurrentIndex \/ NextEdge \/ PrevEdge) =>
            \A classification \in CalledClassifications \ {call'.classification} :
                CurrentIndex(current_indices', classification)
                    = CurrentIndex(current_indices, classification)
       /\ (LoadAllEdges \/ GetCurrentEdge \/ ClassifierConstructed \/ ClassifierWrites)
            => current_indices' = current_indices]_vars

=============================================================================
